---- MODULE Spec2Model ----
(***************************************************************************)
(* Event scheduling DSL runtime: the scheduling validator, the SQLite      *)
(* event store and the paths that create events (HTTP API, batch DSL       *)
(* ingestion and the desktop form, each in its two generations), the       *)
(* rules validator and the ingestion of rules documents into the           *)
(* form_fields table.                                                      *)
(*                                                                         *)
(* Text values (names, dates, times, locations, form entries) are          *)
(* sequences of one-character strings, so that strip, split and int act on *)
(* them as in the code; requester types and field names, which the code    *)
(* only compares, are TLA+ strings.                                        *)
(***************************************************************************)
EXTENDS Integers, Sequences, FiniteSets, TLC

VARIABLES events, pc, last, form_fields, ingestion, requests

vars == <<events, pc, last, form_fields, ingestion, requests>>

\* The form_fields table and the executions that run step by step next to
\* other processes (a rules ingestion, the requests of the API clients).
concurrent == <<form_fields, ingestion, requests>>

(***************************************************************************)
(* Bounds of the model.                                                    *)
(***************************************************************************)
MaxEvents == 2
MaxBatch == 2
MaxStrLen == 5

(***************************************************************************)
(* Python string primitives used by _parse_time_to_minutes.                *)
(***************************************************************************)
Digits == {"0", "1", "2", "3", "4", "5", "6", "7", "8", "9"}

DigitVal(c) ==
  CASE c = "0" -> 0 [] c = "1" -> 1 [] c = "2" -> 2 [] c = "3" -> 3
    [] c = "4" -> 4 [] c = "5" -> 5 [] c = "6" -> 6 [] c = "7" -> 7
    [] c = "8" -> 8 [] c = "9" -> 9

\* ASCII code of a character, the order SQLite's BINARY collation sorts by.
CharCode(c) ==
  CASE c = " " -> 32 [] c = "+" -> 43 [] c = "-" -> 45 [] c = ":" -> 58
    [] c = "_" -> 95 [] c = "a" -> 97
    [] OTHER -> 48 + DigitVal(c)

IsSpace(c) == c = " "

RECURSIVE LStrip(_)
LStrip(s) ==
  IF s # <<>> /\ IsSpace(Head(s)) THEN LStrip(Tail(s)) ELSE s

RECURSIVE RStrip(_)
RStrip(s) ==
  IF s # <<>> /\ IsSpace(s[Len(s)]) THEN RStrip(SubSeq(s, 1, Len(s) - 1)) ELSE s

\* str.strip(): leading and trailing whitespace removed.
PyStrip(s) == RStrip(LStrip(s))

\* str.split(sep): the parts between the occurrences of sep (never empty).
RECURSIVE PySplit(_, _)
PySplit(s, sep) ==
  IF s = <<>> THEN << <<>> >>
  ELSE LET rest == PySplit(Tail(s), sep) IN
       IF Head(s) = sep THEN << <<>> >> \o rest
       ELSE << <<Head(s)>> \o Head(rest) >> \o Tail(rest)

\* The digits of an int() literal: digits, single underscores between them.
RECURSIVE DigitsOk(_)
DigitsOk(s) ==
  /\ s # <<>>
  /\ Head(s) \in Digits
  /\ \/ Len(s) = 1
     \/ /\ s[2] \in Digits
        /\ DigitsOk(Tail(s))
     \/ /\ s[2] = "_"
        /\ Len(s) >= 3
        /\ DigitsOk(SubSeq(s, 3, Len(s)))

RECURSIVE DigitsVal(_, _)
DigitsVal(s, acc) ==
  IF s = <<>> THEN acc
  ELSE IF Head(s) = "_" THEN DigitsVal(Tail(s), acc)
  ELSE DigitsVal(Tail(s), acc * 10 + DigitVal(Head(s)))

\* An int() literal without its surrounding whitespace: an optional sign,
\* then digits.
IntLiteral(t) ==
  IF t # <<>> /\ Head(t) \in {"+", "-"}
  THEN IF DigitsOk(Tail(t))
       THEN [ok |-> TRUE,
             val |-> IF Head(t) = "-" THEN 0 - DigitsVal(Tail(t), 0)
                     ELSE DigitsVal(Tail(t), 0)]
       ELSE [ok |-> FALSE, val |-> 0]
  ELSE IF DigitsOk(t) THEN [ok |-> TRUE, val |-> DigitsVal(t, 0)]
  ELSE [ok |-> FALSE, val |-> 0]

\* int(str): surrounding whitespace is ignored.
PyInt(s) == IntLiteral(PyStrip(s))

(***************************************************************************)
(* _parse_time_to_minutes: the minutes since 00:00, or the format error    *)
(* whose message quotes the argument as it was passed.                     *)
(***************************************************************************)
TimeError(time_str) == [ok |-> FALSE, val |-> 0, bad |-> time_str]

\* The range check and the conversion, given int(parts[0]), int(parts[1]).
MinutesOf(time_str, hour, minute) ==
  IF ~hour.ok \/ ~minute.ok THEN TimeError(time_str)
  ELSE IF ~(0 <= hour.val /\ hour.val < 24
            /\ 0 <= minute.val /\ minute.val < 60)
  THEN TimeError(time_str)
  ELSE [ok |-> TRUE, val |-> hour.val * 60 + minute.val, bad |-> <<>>]

\* The part count check, given time_str.strip().split(":").
MinutesOfParts(time_str, parts) ==
  IF Len(parts) # 2 THEN TimeError(time_str)
  ELSE MinutesOf(time_str, PyInt(parts[1]), PyInt(parts[2]))

_parse_time_to_minutes(time_str) ==
  MinutesOfParts(time_str, PySplit(PyStrip(time_str), ":"))

(***************************************************************************)
(* Python calls.  A call passes positional values and keyword values; it   *)
(* binds to a parameter list without defaults exactly when every parameter *)
(* receives one value and every keyword names a parameter.  A call that    *)
(* does not bind raises TypeError before the callee's body runs.           *)
(***************************************************************************)
NoKw == <<>>

ParamIndex(sig, n) == CHOOSE i \in 1..Len(sig) : sig[i] = n

BindOk(sig, call) ==
  LET names == {sig[i] : i \in 1..Len(sig)} IN
  /\ Len(call.pos) <= Len(sig)
  /\ DOMAIN call.kw \subseteq names
  /\ \A i \in 1..Len(sig) :
       IF i <= Len(call.pos) THEN sig[i] \notin DOMAIN call.kw
       ELSE sig[i] \in DOMAIN call.kw

Arg(sig, call, n) ==
  IF ParamIndex(sig, n) <= Len(call.pos) THEN call.pos[ParamIndex(sig, n)]
  ELSE call.kw[n]

(***************************************************************************)
(* The events table of db.py.  A row is the tuple                          *)
(*   <<id, name, requester_type, campus_id, date, start_time, end_time,    *)
(*     location>>                                                          *)
(* in the column order of the SELECT statements; the table is the          *)
(* sequence of rows in insertion order, and AUTOINCREMENT numbers them     *)
(* 1, 2, ... because no operation deletes a row.                           *)
(***************************************************************************)
save_event_params ==
  <<"name", "requester_type", "campus_id", "date", "start_time", "end_time",
    "location">>

get_events_for_date_location_params == <<"campus_id", "date", "location">>

validate_event_scheduling_params ==
  <<"name", "requester_type", "date", "start_time", "end_time", "location">>

\* Text comparison of SQLite (BINARY collation): byte-wise, shorter first.
RECURSIVE TextLess(_, _)
TextLess(a, b) ==
  IF b = <<>> THEN FALSE
  ELSE IF a = <<>> THEN TRUE
  ELSE IF CharCode(Head(a)) # CharCode(Head(b))
       THEN CharCode(Head(a)) < CharCode(Head(b))
  ELSE TextLess(Tail(a), Tail(b))

\* r sorts before q under ORDER BY the text columns cols, in that priority.
RECURSIVE RowLess(_, _, _)
RowLess(r, q, cols) ==
  IF cols = <<>> THEN FALSE
  ELSE IF r[Head(cols)] # q[Head(cols)]
       THEN TextLess(r[Head(cols)], q[Head(cols)])
  ELSE RowLess(r, q, Tail(cols))

\* Insert a row into an ordered sequence, after the rows it ties with.
RECURSIVE InsertOrdered(_, _, _)
InsertOrdered(row, rows, cols) ==
  IF rows = <<>> THEN <<row>>
  ELSE IF RowLess(row, Head(rows), cols) THEN <<row>> \o rows
  ELSE <<Head(rows)>> \o InsertOrdered(row, Tail(rows), cols)

\* ORDER BY cols: rows that tie stay in rowid order.
RECURSIVE OrderBy(_, _)
OrderBy(rows, cols) ==
  IF rows = <<>> THEN <<>>
  ELSE InsertOrdered(rows[Len(rows)],
                     OrderBy(SubSeq(rows, 1, Len(rows) - 1), cols), cols)

\* save_event: INSERT of one row; [exc, table] is the outcome.
\* save_event as INSERT OR REPLACE with a fixed id: the new row takes the
\* place of what was stored.
save_event_replacing(call, table) ==
  IF ~BindOk(save_event_params, call)
  THEN [exc |-> "TypeError", table |-> table]
  ELSE LET A(n) == Arg(save_event_params, call, n) IN
       [exc |-> "none",
        table |-> <<<<1, A("name"), A("requester_type"),
                      A("campus_id"), A("date"), A("start_time"),
                      A("end_time"), A("location")>>>>]

save_event(call, table) ==
  IF ~BindOk(save_event_params, call)
  THEN [exc |-> "TypeError", table |-> table]
  ELSE LET A(n) == Arg(save_event_params, call, n) IN
       [exc |-> "none",
        table |-> Append(table,
                    <<Len(table) + 1, A("name"), A("requester_type"),
                      A("campus_id"), A("date"), A("start_time"),
                      A("end_time"), A("location")>>)]

\* list_events: every row, ORDER BY date, start_time.
list_events(table) == OrderBy(table, <<5, 6>>)

\* The query taking (date, location) and selecting by them alone.
get_events_by_date_location(call, table) ==
  [exc |-> "none",
   rows |-> OrderBy(SelectSeq(table,
                              LAMBDA r : r[5] = call.pos[1]
                                         /\ r[8] = call.pos[2]),
                    <<6>>)]

\* get_events_for_date_location: WHERE campus_id, date, location; ORDER BY
\* start_time.
get_events_for_date_location(call, table) ==
  IF ~BindOk(get_events_for_date_location_params, call)
  THEN [exc |-> "TypeError", rows |-> <<>>]
  ELSE LET A(n) == Arg(get_events_for_date_location_params, call, n)
           Test(r) == r[4] = A("campus_id") /\ r[5] = A("date")
                      /\ r[8] = A("location")
       IN [exc |-> "none", rows |-> OrderBy(SelectSeq(table, Test), <<6>>)]

(***************************************************************************)
(* validate_event_scheduling.  The outcome records which check ended the   *)
(* call (kind), whether control reached the storage query (calledQuery),   *)
(* the ids of the rows the query returned (existing), the string a format  *)
(* error quotes (bad), the duration a duration error reports and the       *)
(* events a conflict error lists.                                          *)
(***************************************************************************)
Verdict(kind, calledQuery, existing, bad, duration, conflicts) ==
  [kind |-> kind, calledQuery |-> calledQuery, existing |-> existing,
   bad |-> bad, duration |-> duration, conflicts |-> conflicts]

RowIds(rows) == {rows[i][1] : i \in 1..Len(rows)}

\* One turn of the loop over existing_events, given the parsed times of the
\* row: the entry the conflict message gets for it, if any.
ConflictsWith(ev, ev_start, ev_end, start_min, end_min) ==
  IF ~(end_min <= ev_start.val \/ start_min >= ev_end.val)
  THEN <<[id |-> ev[1], date |-> ev[4], start |-> ev[5], end |-> ev[6],
          name |-> ev[2], requester |-> ev[3], unit |-> ev[8],
          location |-> ev[7]]>>
  ELSE <<>>

\* The loop over existing_events: the row is unpacked by position into
\* (ev_id, ev_name, ev_requester, ev_date, ev_start, ev_end, ev_location,
\* ev_requester_unit); a stored time that does not parse ends the call.
RECURSIVE ScanExisting(_, _, _, _)
ScanExisting(rows, start_min, end_min, conflicts) ==
  IF rows = <<>> THEN [bad |-> <<>>, failed |-> FALSE, conflicts |-> conflicts]
  ELSE IF ~_parse_time_to_minutes(Head(rows)[5]).ok
  THEN [bad |-> Head(rows)[5], failed |-> TRUE, conflicts |-> conflicts]
  ELSE IF ~_parse_time_to_minutes(Head(rows)[6]).ok
  THEN [bad |-> Head(rows)[6], failed |-> TRUE, conflicts |-> conflicts]
  ELSE ScanExisting(Tail(rows), start_min, end_min,
         conflicts \o ConflictsWith(Head(rows),
                                    _parse_time_to_minutes(Head(rows)[5]),
                                    _parse_time_to_minutes(Head(rows)[6]),
                                    start_min, end_min))

\* The outcome of the loop and of the test that follows it.
ConflictVerdict(existing, scan) ==
  IF scan.failed THEN Verdict("format", TRUE, existing, scan.bad, 0, <<>>)
  ELSE IF scan.conflicts # <<>>
  THEN Verdict("conflict", TRUE, existing, <<>>, 0, scan.conflicts)
  ELSE Verdict("ok", TRUE, existing, <<>>, 0, <<>>)

\* Step 3, given the result of the storage query.
CheckConflicts(existing, start_min, end_min) ==
  IF existing.exc # "none"
  THEN Verdict(existing.exc, TRUE, {}, <<>>, 0, <<>>)
  ELSE ConflictVerdict(RowIds(existing.rows),
                       ScanExisting(existing.rows, start_min, end_min, <<>>))

\* CheckTimes with the conflict check moved in front of the ordering check.
CheckTimesQueryFirst(date, location, start, end, table) ==
  IF ~start.ok THEN Verdict("format", FALSE, {}, start.bad, 0, <<>>)
  ELSE IF ~end.ok THEN Verdict("format", FALSE, {}, end.bad, 0, <<>>)
  ELSE IF CheckConflicts(
            get_events_for_date_location(
              [pos |-> <<date, location>>, kw |-> NoKw], table),
            start.val, end.val).kind # "ok"
  THEN CheckConflicts(
         get_events_for_date_location(
           [pos |-> <<date, location>>, kw |-> NoKw], table),
         start.val, end.val)
  ELSE IF start.val >= end.val THEN Verdict("order", TRUE, {}, <<>>, 0, <<>>)
  ELSE IF end.val - start.val < 60
  THEN Verdict("duration", TRUE, {}, <<>>, end.val - start.val, <<>>)
  ELSE Verdict("ok", TRUE, {}, <<>>, 0, <<>>)

\* Steps 1 to 3, given the parsed start and end time.
CheckTimes(date, location, start, end, table) ==
  IF ~start.ok THEN Verdict("format", FALSE, {}, start.bad, 0, <<>>)
  ELSE IF ~end.ok THEN Verdict("format", FALSE, {}, end.bad, 0, <<>>)
  ELSE IF start.val >= end.val THEN Verdict("order", FALSE, {}, <<>>, 0, <<>>)
  ELSE IF end.val - start.val < 60
  THEN Verdict("duration", FALSE, {}, <<>>, end.val - start.val, <<>>)
  ELSE CheckConflicts(
         get_events_for_date_location(
           [pos |-> <<date, location>>, kw |-> NoKw], table),
         start.val, end.val)

validate_event_scheduling(call, table) ==
  IF ~BindOk(validate_event_scheduling_params, call)
  THEN Verdict("TypeError", FALSE, {}, <<>>, 0, <<>>)
  ELSE CheckTimes(Arg(validate_event_scheduling_params, call, "date"),
                  Arg(validate_event_scheduling_params, call, "location"),
                  _parse_time_to_minutes(
                    Arg(validate_event_scheduling_params, call, "start_time")),
                  _parse_time_to_minutes(
                    Arg(validate_event_scheduling_params, call, "end_time")),
                  table)

\* The kinds of outcome that are a SchedulingValidationError.
SchedulingErrorKinds == {"format", "order", "duration", "conflict"}

(***************************************************************************)
(* Specification of the time parser alone: every string over TimeChars    *)
(* of at most MaxStrLen characters is parsed once.                         *)
(***************************************************************************)
TimeChars == {"0", "2", "4", "6", "9", ":", " ", "+", "-", "a"}

StringsUpTo(n) == UNION {[1..k -> TimeChars] : k \in 0..n}

NoCall == [op |-> "none"]

\* No rules ingestion is running.
\* installed holds the document the latest rules ingestion stored, if that
\* ingestion succeeded and nothing has written to form_fields since.
NoIngestion == [pc |-> "idle", installed |-> <<>>]

\* The API clients whose requests can be in progress at the same time.
Clients == {1, 2}

NoRequest == [pc |-> "idle"]

InitConcurrent ==
  /\ form_fields = <<>>
  /\ ingestion = NoIngestion
  /\ requests = [c \in Clients |-> NoRequest]

InitParse ==
  /\ events = <<>>
  /\ pc = "idle"
  /\ last = NoCall
  /\ InitConcurrent

ParseTime ==
  /\ pc = "idle"
  /\ \E s \in StringsUpTo(MaxStrLen) :
       last' = [op |-> "_parse_time_to_minutes", time_str |-> s,
                result |-> _parse_time_to_minutes(s)]
  /\ pc' = "returned"
  /\ UNCHANGED <<events, concurrent>>

\* The caller takes the result; the next call can start.
Return ==
  /\ pc = "returned"
  /\ pc' = "idle"
  /\ last' = NoCall
  /\ UNCHANGED <<events, concurrent>>

NextParse == ParseTime \/ Return

SpecParse == InitParse /\ [][NextParse]_vars

(***************************************************************************)
(* Inputs: the event definitions a client, a DSL file or a form can carry. *)
(***************************************************************************)
T0900 == <<"0", "9", ":", "0", "0">>
T0930 == <<"0", "9", ":", "3", "0">>
T0959 == <<"0", "9", ":", "5", "9">>
T1000 == <<"1", "0", ":", "0", "0">>
T1001 == <<"1", "0", ":", "0", "1">>
T1030 == <<"1", "0", ":", "3", "0">>
T1100 == <<"1", "1", ":", "0", "0">>
T2400 == <<"2", "4", ":", "0", "0">>

Mar01 == <<"2", "0", "2", "5", "-", "0", "3", "-", "0", "1">>
Mar02 == <<"2", "0", "2", "5", "-", "0", "3", "-", "0", "2">>

REC == <<"R", "E", "C">>
LIB == <<"L", "I", "B">>

None == <<"N", "o", "n", "e">>

Draft(name, date, start, end, location) ==
  [name |-> <<name>>, requester_type |-> "Students", campus_id |-> 1,
   date |-> date, start |-> start, end |-> end, location |-> location]

Drafts ==
  {Draft("A", Mar01, T0900, T1000, REC),
   Draft("B", Mar01, T0930, T1030, REC),
   Draft("C", Mar01, T1000, T1100, REC),
   Draft("D", Mar01, T0900, T1001, REC),
   Draft("E", Mar02, T0900, T1000, REC),
   Draft("F", Mar01, T0900, T1000, LIB),
   Draft("G", Mar01, T1000, T0900, REC),
   Draft("H", Mar01, T0900, T0900, REC),
   Draft("I", Mar01, T0900, T0959, REC),
   Draft("J", Mar01, T2400, T1000, REC)}

Batches == UNION {[1..k -> Drafts] : k \in 0..MaxBatch}

\* The events the first-generation files and form carry (their grammar has a
\* campus_id): none of them is validated before it is stored.
DraftsV1 ==
  {Draft("A", Mar01, T0900, T1000, REC),
   Draft("D", Mar01, T0900, T1001, REC),
   Draft("E", Mar02, T0900, T1000, REC),
   Draft("F", Mar01, T0900, T1000, LIB),
   Draft("G", Mar01, T1000, T0900, REC),
   Draft("J", Mar01, T2400, T1000, REC)}

BatchesV1 == UNION {[1..k -> DraftsV1] : k \in 0..MaxBatch}

(***************************************************************************)
(* The calls the creation paths make.                                      *)
(***************************************************************************)
\* validate_event_scheduling(name=, requester_type=, date=, start_time=,
\* end_time=, location=), as the API and the batch parser call it.
ValidateCall(d) ==
  [pos |-> <<>>,
   kw |-> [name |-> d.name, requester_type |-> d.requester_type,
           date |-> d.date, start_time |-> d.start, end_time |-> d.end,
           location |-> d.location]]

\* The same call with campus_id=, as the desktop form makes it.
ValidateCallWithCampus(d) ==
  [pos |-> <<>>,
   kw |-> [name |-> d.name, requester_type |-> d.requester_type,
           campus_id |-> d.campus_id, date |-> d.date,
           start_time |-> d.start, end_time |-> d.end,
           location |-> d.location]]

\* save_event(name=, requester_type=, campus_id=, date=, start_time=,
\* end_time=, location=).
SaveCallWithCampus(d) ==
  [pos |-> <<>>,
   kw |-> [name |-> d.name, requester_type |-> d.requester_type,
           campus_id |-> d.campus_id, date |-> d.date,
           start_time |-> d.start, end_time |-> d.end,
           location |-> d.location]]

\* save_event(name=, requester_type=, date=, start_time=, end_time=,
\* location=).
SaveCall(d) ==
  [pos |-> <<>>,
   kw |-> [name |-> d.name, requester_type |-> d.requester_type,
           date |-> d.date, start_time |-> d.start, end_time |-> d.end,
           location |-> d.location]]

\* save_event(..., requester_unit=), as the API calls it.
SaveCallWithUnit(d, requester_unit) ==
  [pos |-> <<>>,
   kw |-> [name |-> d.name, requester_type |-> d.requester_type,
           date |-> d.date, start_time |-> d.start, end_time |-> d.end,
           location |-> d.location, requester_unit |-> requester_unit]]

(***************************************************************************)
(* POST /events.                                                           *)
(***************************************************************************)
ApiResult(status, detail, verdict, table, body) ==
  [status |-> status, detail |-> detail, verdict |-> verdict,
   validated |-> IF verdict.kind = "ok" THEN 1 ELSE 0,
   table |-> table, body |-> body]

\* "Return the last inserted event": the last row of list_events, unpacked
\* by position into (ev_id, name, requester_type, date, start, end,
\* location, requester_unit).
EventOut(row) ==
  [id |-> row[1], name |-> row[2], requester_type |-> row[3],
   date |-> row[4], start_time |-> row[5], end_time |-> row[6],
   location |-> row[7], requester_unit |-> row[8]]

LastRow(rows) == rows[Len(rows)]

\* The handler after validation, given the outcome of save_event.
CreateSaved(verdict, saved) ==
  IF saved.exc # "none"
  THEN ApiResult(500, "Database error", verdict, saved.table, <<>>)
  ELSE ApiResult(201, "created", verdict, saved.table,
                 EventOut(LastRow(list_events(saved.table))))

\* The handler answering 400 for every exception of the validator.
CreateValidatedAllClientErrors(payload, requester_unit, verdict, table) ==
  IF verdict.kind # "ok"
  THEN ApiResult(400, "SchedulingValidationError", verdict, table, <<>>)
  ELSE CreateSaved(verdict,
                   save_event(SaveCallWithUnit(payload, requester_unit), table))

\* The handler writing the event before it looks at the validator's outcome.
CreateValidatedAfterSave(payload, requester_unit, verdict, table) ==
  IF verdict.kind \in SchedulingErrorKinds
  THEN ApiResult(400, "SchedulingValidationError", verdict,
                 save_event(SaveCallWithCampus(payload), table).table, <<>>)
  ELSE IF verdict.kind # "ok"
  THEN ApiResult(500, verdict.kind, verdict, table, <<>>)
  ELSE CreateSaved(verdict,
                   save_event(SaveCallWithUnit(payload, requester_unit), table))

\* The handler, given the outcome of validate_event_scheduling: a
\* SchedulingValidationError becomes a 400, any other exception leaves the
\* handler and becomes the framework's 500.
CreateValidated(payload, requester_unit, verdict, table) ==
  IF verdict.kind \in SchedulingErrorKinds
  THEN ApiResult(400, "SchedulingValidationError", verdict, table, <<>>)
  ELSE IF verdict.kind # "ok"
  THEN ApiResult(500, verdict.kind, verdict, table, <<>>)
  ELSE CreateSaved(verdict,
                   save_event(SaveCallWithUnit(payload, requester_unit), table))

create_event(payload, requester_unit, table) ==
  CreateValidated(payload, requester_unit,
                  validate_event_scheduling(ValidateCall(payload), table),
                  table)

(***************************************************************************)
(* parse_and_save_events, eventdsl/parsers/events.py: validate every       *)
(* event, then save every event.                                           *)
(***************************************************************************)
\* validated: how many events of the batch the validator was called on and
\* accepted.
BatchResult(exc, stage, failing, verdict, validated, table) ==
  [exc |-> exc, stage |-> stage, failing |-> failing, verdict |-> verdict,
   validated |-> validated, table |-> table]

NotCalled == Verdict("not called", FALSE, {}, <<>>, 0, <<>>)

\* FirstInvalid with a loop that leaves out the first event.
RECURSIVE FirstInvalidAfterFirst(_, _, _)
FirstInvalidAfterFirst(drafts, i, table) ==
  IF i > Len(drafts) THEN 0
  ELSE IF i > 1
          /\ validate_event_scheduling(ValidateCall(drafts[i]), table).kind
               # "ok"
  THEN i
  ELSE FirstInvalidAfterFirst(drafts, i + 1, table)

\* First pass: the first event whose validation raises, 0 when none does.
RECURSIVE FirstInvalid(_, _, _)
FirstInvalid(drafts, i, table) ==
  IF i > Len(drafts) THEN 0
  ELSE IF validate_event_scheduling(ValidateCall(drafts[i]), table).kind # "ok"
  THEN i
  ELSE FirstInvalid(drafts, i + 1, table)

\* The error of the first pass: a SchedulingValidationError is raised again
\* with the event's name, date, times, requester and location in front; any
\* other exception propagates as it is.
ValidationFailure(failing, verdict, table) ==
  BatchResult(IF verdict.kind \in SchedulingErrorKinds
              THEN "SchedulingValidationError" ELSE verdict.kind,
              "validate", failing, verdict, failing - 1, table)

\* Second pass: one committed INSERT per event, until a call raises.
RECURSIVE SaveAll(_, _, _)
SaveAll(drafts, i, table) ==
  IF i > Len(drafts)
  THEN BatchResult("none", "save", 0, NotCalled, Len(drafts), table)
  ELSE IF save_event(SaveCall(drafts[i]), table).exc # "none"
  THEN BatchResult(save_event(SaveCall(drafts[i]), table).exc, "save", i,
                   NotCalled, Len(drafts), table)
  ELSE SaveAll(drafts, i + 1, save_event(SaveCall(drafts[i]), table).table)

\* The two passes, given the result of the first.
TwoPasses(drafts, failing, table) ==
  IF failing # 0
  THEN ValidationFailure(failing,
         validate_event_scheduling(ValidateCall(drafts[failing]), table),
         table)
  ELSE SaveAll(drafts, 1, table)

parse_and_save_events(drafts, table) ==
  TwoPasses(drafts, FirstInvalid(drafts, 1, table), table)

(***************************************************************************)
(* parse_and_save_events, parsers/events.py: save every event.             *)
(***************************************************************************)
RECURSIVE SaveAllWithCampus(_, _, _)
SaveAllWithCampus(drafts, i, table) ==
  IF i > Len(drafts) THEN BatchResult("none", "save", 0, NotCalled, 0, table)
  ELSE IF save_event(SaveCallWithCampus(drafts[i]), table).exc # "none"
  THEN BatchResult(save_event(SaveCallWithCampus(drafts[i]), table).exc,
                   "save", i, NotCalled, 0, table)
  ELSE SaveAllWithCampus(drafts, i + 1,
         save_event(SaveCallWithCampus(drafts[i]), table).table)

parse_and_save_events_v1(drafts, table) == SaveAllWithCampus(drafts, 1, table)

(***************************************************************************)
(* The desktop form.  A rule row is <<field_name, visible, required,       *)
(* label, options_json>> as get_form_rules_for_requester returns it; the   *)
(* form keeps the loaded rows (current_rules) and one widget per visible   *)
(* row (current_fields).                                                   *)
(***************************************************************************)
Rule(field_name, visible, required) ==
  <<field_name, visible, required, None, None>>

EventFields ==
  <<"event_name", "campus_id", "event_date", "start_time", "end_time",
    "location">>

FullForm == [i \in 1..Len(EventFields) |-> Rule(EventFields[i], TRUE, TRUE)]

HiddenRequiredForm == FullForm \o <<Rule("requester_unit", FALSE, TRUE)>>

Forms == {<<>>, FullForm, HiddenRequiredForm}

CampusEntries == {<<"1">>, <<"a">>}

\* What the user typed into the widgets of the form.
Entries(d, campus_raw) ==
  [event_name |-> d.name, campus_id |-> campus_raw, event_date |-> d.date,
   start_time |-> d.start, end_time |-> d.end, location |-> d.location,
   requester_unit |-> <<>>]

current_fields(current_rules) ==
  {current_rules[i][1] : i \in {j \in 1..Len(current_rules) : current_rules[j][2]}}

\* values.get(field, "").strip()
Value(values, field) ==
  IF field \in DOMAIN values THEN PyStrip(values[field]) ELSE <<>>

\* The event the form maps its values to.
FormDraft(values, requester_type, campus_id) ==
  [name |-> Value(values, "event_name"), requester_type |-> requester_type,
   campus_id |-> campus_id, date |-> Value(values, "event_date"),
   start |-> Value(values, "start_time"), end |-> Value(values, "end_time"),
   location |-> Value(values, "location")]

FormResult(dialog, verdict, table) ==
  [dialog |-> dialog, verdict |-> verdict,
   validated |-> IF verdict.kind = "ok" THEN 1 ELSE 0, table |-> table]

\* The fields on_submit of eventdsl/gui reports missing: visible, required,
\* with a widget, and blank.
MissingFields(current_rules, values) ==
  {f \in {current_rules[i][1] :
            i \in {j \in 1..Len(current_rules) :
                     /\ current_rules[j][2]
                     /\ current_rules[j][3]
                     /\ current_rules[j][1] \in DOMAIN values}} :
     PyStrip(values[f]) = <<>>}

\* The fields on_submit of gui reports missing: required in required_map
\* (the last row of a field name decides), and without a widget or blank.
MissingFieldsV1(current_rules, values) ==
  {f \in {current_rules[i][1] :
            i \in {j \in 1..Len(current_rules) :
                     /\ current_rules[j][3]
                     /\ \A k \in (j + 1)..Len(current_rules) :
                          current_rules[k][1] # current_rules[j][1]}} :
     f \notin DOMAIN values \/ PyStrip(values[f]) = <<>>}

\* The mapping to the columns of events raises ValueError.
MappingFails(values) ==
  \/ Value(values, "event_name") = <<>>
  \/ Value(values, "campus_id") = <<>>
  \/ ~PyInt(Value(values, "campus_id")).ok

MappedDraft(values, requester_type) ==
  FormDraft(values, requester_type, PyInt(Value(values, "campus_id")).val)

\* The end of on_submit, given the outcome of save_event.
SubmitSaved(verdict, saved) ==
  IF saved.exc # "none" THEN FormResult("Database error", verdict, saved.table)
  ELSE FormResult("Success", verdict, saved.table)

\* on_submit after the mapping, given the outcome of the validator: a
\* SchedulingValidationError and any other exception each show a dialog and
\* return.
SubmitValidated(d, verdict, table) ==
  IF verdict.kind \in SchedulingErrorKinds
  THEN FormResult("Scheduling conflict", verdict, table)
  ELSE IF verdict.kind # "ok" THEN FormResult("Error", verdict, table)
  ELSE SubmitSaved(verdict, save_event(SaveCallWithCampus(d), table))

SubmitValues(current_rules, values, requester_type, table) ==
  IF MissingFields(current_rules, values) # {}
  THEN FormResult("Missing data", NotCalled, table)
  ELSE IF MappingFails(values)
  THEN FormResult("Validation error", NotCalled, table)
  ELSE SubmitValidated(MappedDraft(values, requester_type),
         validate_event_scheduling(
           ValidateCallWithCampus(MappedDraft(values, requester_type)), table),
         table)

\* AddEventApp.on_submit, eventdsl/gui/add_event_view.py.
on_submit(current_rules, entries, requester_type, table) ==
  SubmitValues(current_rules,
               [f \in current_fields(current_rules) |-> entries[f]],
               requester_type, table)

SubmitValuesV1(current_rules, values, requester_type, table) ==
  IF MissingFieldsV1(current_rules, values) # {}
  THEN FormResult("Missing data", NotCalled, table)
  ELSE IF MappingFails(values)
  THEN FormResult("Validation error", NotCalled, table)
  ELSE SubmitSaved(NotCalled,
         save_event(SaveCallWithCampus(MappedDraft(values, requester_type)),
                    table))

\* AddEventApp.on_submit, gui/add_event_view.py.
on_submit_v1(current_rules, entries, requester_type, table) ==
  SubmitValuesV1(current_rules,
                 [f \in current_fields(current_rules) |-> entries[f]],
                 requester_type, table)

(***************************************************************************)
(* The system: one store, and callers that run one operation at a time.    *)
(* last records the operation that has just run: its input, the table      *)
(* before it (pre) and its outcome.                                        *)
(***************************************************************************)
Init ==
  /\ events = <<>>
  /\ pc = "idle"
  /\ last = NoCall
  /\ InitConcurrent

\* An operation has run: the table is what it left, last is its record.
Ran(record, table) ==
  /\ Len(table) <= MaxEvents
  /\ events' = table
  /\ last' = record
  /\ pc' = "returned"
  /\ UNCHANGED concurrent

ApiRecord(payload, requester_unit, r, pre) ==
  [op |-> "create_event", drafts |-> <<payload>>,
   requester_unit |-> requester_unit, pre |-> pre, verdict |-> r.verdict,
   validated |-> r.validated, status |-> r.status, detail |-> r.detail,
   body |-> r.body]

BatchRecord(op, drafts, r, pre) ==
  [op |-> op, drafts |-> drafts, pre |-> pre, verdict |-> r.verdict,
   validated |-> r.validated, exc |-> r.exc, stage |-> r.stage,
   failing |-> r.failing]

FormRecord(op, d, form, campus_raw, r, pre) ==
  [op |-> op, drafts |-> <<d>>, pre |-> pre, verdict |-> r.verdict,
   validated |-> r.validated, dialog |-> r.dialog, form |-> form,
   campus_raw |-> campus_raw]

\* POST /events
CreateEvent ==
  /\ pc = "idle"
  /\ \E payload \in Drafts, requester_unit \in {None, <<"U">>} :
       \E r \in {create_event(payload, requester_unit, events)} :
         Ran(ApiRecord(payload, requester_unit, r, events), r.table)

\* Batch ingestion of a DSL file that parses, eventdsl/parsers/events.py
IngestEvents ==
  /\ pc = "idle"
  /\ \E drafts \in Batches :
       \E r \in {parse_and_save_events(drafts, events)} :
         Ran(BatchRecord("parse_and_save_events", drafts, r, events), r.table)

\* Batch ingestion of a DSL file that parses, parsers/events.py
IngestEventsV1 ==
  /\ pc = "idle"
  /\ \E drafts \in BatchesV1 :
       \E r \in {parse_and_save_events_v1(drafts, events)} :
         Ran(BatchRecord("parse_and_save_events_v1", drafts, r, events),
             r.table)

\* Batch ingestion of a DSL file that does not parse (either generation):
\* model_from_file raises before any event is read.
IngestSyntaxError ==
  /\ pc = "idle"
  /\ \E op \in {"parse_and_save_events", "parse_and_save_events_v1"} :
       Ran(BatchRecord(op, <<>>,
                       BatchResult("TextXSyntaxError", "parse", 0, NotCalled,
                                   0, events),
                       events),
           events)

\* "Add Event" on the desktop form, eventdsl/gui/add_event_view.py
Submit ==
  /\ pc = "idle"
  /\ \E d \in Drafts, campus_raw \in CampusEntries, form \in Forms :
       \E r \in {on_submit(form, Entries(d, campus_raw), d.requester_type,
                           events)} :
         Ran(FormRecord("on_submit", d, form, campus_raw, r, events), r.table)

\* "Add Event" on the desktop form, gui/add_event_view.py
SubmitV1 ==
  /\ pc = "idle"
  /\ \E d \in DraftsV1, campus_raw \in CampusEntries, form \in Forms :
       \E r \in {on_submit_v1(form, Entries(d, campus_raw), d.requester_type,
                              events)} :
         Ran(FormRecord("on_submit_v1", d, form, campus_raw, r, events),
             r.table)

Next ==
  \/ CreateEvent
  \/ IngestEvents
  \/ IngestEventsV1
  \/ IngestSyntaxError
  \/ Submit
  \/ SubmitV1
  \/ Return

Spec == Init /\ [][Next]_vars

(***************************************************************************)
(* Vocabulary of the properties.  Times are read here as the               *)
(* specification defines them (two digits, a colon, two digits), and a     *)
(* stored event by the columns of its row, independently of the code       *)
(* above.                                                                  *)
(***************************************************************************)
IsHHMM(t) ==
  /\ Len(t) = 5
  /\ t[3] = ":"
  /\ \A i \in {1, 2, 4, 5} : t[i] \in Digits
  /\ 10 * DigitVal(t[1]) + DigitVal(t[2]) < 24
  /\ 10 * DigitVal(t[4]) + DigitVal(t[5]) < 60

Minutes(t) ==
  (10 * DigitVal(t[1]) + DigitVal(t[2])) * 60
    + 10 * DigitVal(t[4]) + DigitVal(t[5])

RowDate(row) == row[5]
RowStart(row) == row[6]
RowEnd(row) == row[7]
RowLocation(row) == row[8]

Rows(table) == {table[i] : i \in 1..Len(table)}

\* The stored events at the date and location of the candidate.
SameSlot(d, table) ==
  {row \in Rows(table) : RowDate(row) = d.date /\ RowLocation(row) = d.location}

\* Half-open interval intersection, in minutes since midnight.
Overlaps(d, row) ==
  ~(Minutes(d.end) <= Minutes(RowStart(row))
    \/ Minutes(d.start) >= Minutes(RowEnd(row)))

WellTimed(table) ==
  \A row \in Rows(table) : IsHHMM(RowStart(row)) /\ IsHHMM(RowEnd(row))

\* A candidate the validator has no reason to reject before the conflict
\* check: well-formed times, start before end, at least 60 minutes.
Placeable(d) ==
  /\ IsHHMM(d.start)
  /\ IsHHMM(d.end)
  /\ Minutes(d.end) - Minutes(d.start) >= 60

OverlapSet(d, table) == {row \in SameSlot(d, table) : Overlaps(d, row)}

\* The last operation was one that runs the validator on a single candidate
\* with the call of the API and the batch parser.
Validated ==
  /\ pc = "returned"
  /\ last.op = "create_event"

Candidate == last.drafts[1]

IsBatch ==
  /\ pc = "returned"
  /\ last.op \in {"parse_and_save_events", "parse_and_save_events_v1"}
  /\ last.stage # "parse"

IsWrite ==
  /\ pc = "returned"
  /\ last.op \in {"create_event", "parse_and_save_events",
                  "parse_and_save_events_v1", "on_submit", "on_submit_v1"}

(***************************************************************************)
(* C1. Every operation that adds rows to the events table called the       *)
(* scheduling validator on each event it wrote and wrote it only after     *)
(* the validator returned without error: an operation never writes more    *)
(* rows than the events it validated successfully.  Stated as the claim;   *)
(* the first-generation batch parser and form write without validating.    *)
(***************************************************************************)
C1_EveryWriteValidated ==
  IsWrite => Len(events) - Len(last.pre) <= last.validated

(***************************************************************************)
(* C2. With stored events at the candidate's date and location, a          *)
(* placeable candidate is rejected for a conflict exactly when it overlaps *)
(* one of them under NOT (end <= ev_start OR start >= ev_end): a candidate *)
(* that starts when a stored event ends is accepted, one that starts at    *)
(* 10:00 against a stored event ending at 10:01 is rejected.  Stated as    *)
(* the claim; the conflict query raises before any comparison is made.     *)
(***************************************************************************)
C2_HalfOpenOverlap ==
  (/\ Validated
   /\ Placeable(Candidate)
   /\ WellTimed(last.pre)
   /\ SameSlot(Candidate, last.pre) # {})
  => last.verdict.kind = (IF OverlapSet(Candidate, last.pre) # {}
                          THEN "conflict" ELSE "ok")

(***************************************************************************)
(* C3. When stored events at the candidate's date and location overlap a   *)
(* placeable candidate, the failure lists every one of them and no other   *)
(* stored event.  Stated as the claim; the failure the code produces lists *)
(* no event.                                                               *)
(***************************************************************************)
C3_ListsEveryConflict ==
  (/\ Validated
   /\ Placeable(Candidate)
   /\ WellTimed(last.pre)
   /\ OverlapSet(Candidate, last.pre) # {})
  => /\ last.verdict.kind = "conflict"
     /\ {last.verdict.conflicts[i].id :
           i \in 1..Len(last.verdict.conflicts)}
        = {row[1] : row \in OverlapSet(Candidate, last.pre)}

(***************************************************************************)
(* C4. A candidate with well-formed times and a duration of 1 to 59        *)
(* minutes is rejected; one of exactly 60 minutes that no stored event at  *)
(* its date and location overlaps is accepted.  Stated as the claim; the   *)
(* 60-minute candidate is not accepted.                                    *)
(***************************************************************************)
C4_MinimumDuration ==
  (/\ Validated
   /\ IsHHMM(Candidate.start)
   /\ IsHHMM(Candidate.end)
   /\ WellTimed(last.pre))
  => LET duration == Minutes(Candidate.end) - Minutes(Candidate.start) IN
     /\ duration \in 1..59 => last.verdict.kind = "duration"
     /\ (duration = 60 /\ OverlapSet(Candidate, last.pre) = {})
          => last.verdict.kind = "ok"

(***************************************************************************)
(* C5. A candidate whose start time equals or is later than its end time   *)
(* is rejected with the ordering error before the storage query: control   *)
(* never reaches the query, no row is fetched and no conflict is reported, *)
(* whatever the table holds.                                               *)
(***************************************************************************)
C5_OrderBeforeQuery ==
  (/\ Validated
   /\ IsHHMM(Candidate.start)
   /\ IsHHMM(Candidate.end)
   /\ Minutes(Candidate.start) >= Minutes(Candidate.end))
  => /\ last.verdict.kind = "order"
     /\ ~last.verdict.calledQuery
     /\ last.verdict.existing = {}
     /\ last.verdict.conflicts = <<>>

\* Reached: an inverted or empty interval was validated against a table
\* that holds an event at the same date and location within its span.
C5_Witness ==
  /\ Validated
  /\ IsHHMM(Candidate.start)
  /\ IsHHMM(Candidate.end)
  /\ Minutes(Candidate.start) >= Minutes(Candidate.end)
  /\ SameSlot(Candidate, last.pre) # {}
  /\ last.verdict.kind = "order"

(***************************************************************************)
(* C6. A time string is accepted only if it is HH:MM with two digits each, *)
(* 0 <= HH < 24 and 0 <= MM < 60, and is then converted to HH*60+MM; every *)
(* other string fails with the format error naming that string.  Stated    *)
(* as the claim; int() also accepts one-digit, signed and space-padded     *)
(* components.                                                             *)
(***************************************************************************)
C6_StrictHHMM ==
  (pc = "returned" /\ last.op = "_parse_time_to_minutes")
  => IF IsHHMM(last.time_str)
     THEN last.result.ok /\ last.result.val = Minutes(last.time_str)
     ELSE ~last.result.ok /\ last.result.bad = last.time_str

(***************************************************************************)
(* C7. The conflict check considers exactly the stored events whose date   *)
(* and location equal the candidate's: for a placeable candidate the       *)
(* storage query is made, succeeds and returns those rows and no others.   *)
(* Stated as the claim; the storage operation selects by campus, date and  *)
(* location and the validator's call does not fit it.                      *)
(***************************************************************************)
C7_QueryScope ==
  (Validated /\ Placeable(Candidate))
  => /\ last.verdict.calledQuery
     /\ last.verdict.kind # "TypeError"
     /\ last.verdict.existing
        = {row[1] : row \in SameSlot(Candidate, last.pre)}

(***************************************************************************)
(* C8. If some event of a batch fails the scheduling validator (a format,  *)
(* ordering, duration or conflict error against the stored events), batch  *)
(* ingestion raises and the table is as before the call.  Stated as the    *)
(* claim for both parser generations; the first generation saves the       *)
(* batch without validating it.                                            *)
(***************************************************************************)
C8_AllOrNothing ==
  (/\ IsBatch
   /\ \E i \in 1..Len(last.drafts) :
        validate_event_scheduling(ValidateCall(last.drafts[i]), last.pre).kind
          \in SchedulingErrorKinds)
  => /\ last.exc # "none"
     /\ events = last.pre

\* The rows a batch adds when it is persisted in full.
RECURSIVE Persisted(_, _)
Persisted(table, drafts) ==
  IF drafts = <<>> THEN table
  ELSE Persisted(Append(table,
                   <<Len(table) + 1, Head(drafts).name,
                     Head(drafts).requester_type, Head(drafts).campus_id,
                     Head(drafts).date, Head(drafts).start, Head(drafts).end,
                     Head(drafts).location>>),
                 Tail(drafts))

\* Two events of one batch overlap each other at the same date and location.
OverlapEachOther(d, e) ==
  /\ d.date = e.date
  /\ d.location = e.location
  /\ ~(Minutes(d.end) <= Minutes(e.start) \/ Minutes(d.start) >= Minutes(e.end))

(***************************************************************************)
(* C9. A batch of two events that overlap each other, each of which        *)
(* passes against the stored events (placeable, no stored event at its     *)
(* date and location overlapping it), is persisted in full by the          *)
(* second-generation parser.  Stated as the claim; the batch is not        *)
(* persisted.                                                              *)
(***************************************************************************)
C9_NoCrossCheck ==
  (/\ pc = "returned"
   /\ last.op = "parse_and_save_events"
   /\ Len(last.drafts) = 2
   /\ WellTimed(last.pre)
   /\ \A i \in 1..2 : /\ Placeable(last.drafts[i])
                      /\ OverlapSet(last.drafts[i], last.pre) = {}
   /\ OverlapEachOther(last.drafts[1], last.drafts[2]))
  => /\ last.exc = "none"
     /\ events = Persisted(last.pre, last.drafts)

\* The batch of the example: 09:00-10:00 then 09:30-10:30 on 2025-03-01 at
\* REC, ingested by the second-generation parser.
ExampleBatch ==
  <<Draft("A", Mar01, T0900, T1000, REC), Draft("B", Mar01, T0930, T1030, REC)>>

ExampleIngested ==
  /\ pc = "returned"
  /\ last.op = "parse_and_save_events"
  /\ last.drafts = ExampleBatch

MaxForms == 2

MANDATORY_FIELDS ==
  {"event_name", "event_date", "start_time", "end_time", "location"}

ALWAYS_REQUIRED_FIELDS == MANDATORY_FIELDS

ALLOWED_OPTION_FIELDS == {"location", "requester_unit"}

\* Check 4 asking for the Students form only.
RequiredStudentsOnly == {"Students"}

REQUIRED_REQUESTER_TYPES == {"Academics", "Students"}

\* What validate_model raises: the kind of the TextXError, and the
\* requester type and the names its message carries.
RulesError(kind, requester, names) ==
  [kind |-> kind, requester |-> requester, names |-> names]

NoRulesError == RulesError("ok", "", {})

\* hasattr(field, "options") and bool(getattr(field, "options", []))
has_options(field) == field.options # <<>>

\* FieldError without check 3.2: options are accepted on any field.
FieldErrorAnyOptions(field, requester, seen) ==
  IF field.field_name \in seen
    THEN RulesError("duplicate_field", requester, {field.field_name})
  ELSE IF /\ field.field_name \in ALWAYS_REQUIRED_FIELDS
          /\ field.required # "yes"
    THEN RulesError("required", requester, {field.field_name})
  ELSE NoRulesError

\* The checks 3.1 to 3.3 on one field; seen is the key set of field_map.
FieldError(field, requester, seen) ==
  IF field.field_name \in seen
    THEN RulesError("duplicate_field", requester, {field.field_name})
  ELSE IF has_options(field) /\ field.field_name \notin ALLOWED_OPTION_FIELDS
    THEN RulesError("options", requester, {field.field_name})
  ELSE IF /\ field.field_name \in ALWAYS_REQUIRED_FIELDS
          /\ field.required # "yes"
    THEN RulesError("required", requester, {field.field_name})
  ELSE NoRulesError

\* The loop over form.fields: the first error, or field_map's keys.
RECURSIVE ScanFields(_, _, _, _)
ScanFields(fields, i, requester, seen) ==
  IF i > Len(fields)
    THEN [error |-> NoRulesError, field_map |-> seen]
  ELSE IF FieldError(fields[i], requester, seen) # NoRulesError
    THEN [error |-> FieldError(fields[i], requester, seen), field_map |-> seen]
  ELSE ScanFields(fields, i + 1, requester, seen \cup {fields[i].field_name})

\* Check 3.4, after the fields of the form have been inspected.
MissingError(requester, scan) ==
  IF scan.error # NoRulesError
    THEN scan.error
  ELSE IF MANDATORY_FIELDS \ scan.field_map # {}
    THEN RulesError("missing_fields", requester,
                    MANDATORY_FIELDS \ scan.field_map)
  ELSE NoRulesError

\* One iteration of the loop over model.forms.
FormError(form, seen_requesters) ==
  IF form.requester_type \in seen_requesters
    THEN RulesError("duplicate_form", form.requester_type, {})
  ELSE MissingError(form.requester_type,
                    ScanFields(form.fields, 1, form.requester_type, {}))

\* The loop over model.forms, then check 4.
RECURSIVE ScanForms(_, _, _)
ScanForms(forms, k, seen_requesters) ==
  IF k > Len(forms)
    THEN IF REQUIRED_REQUESTER_TYPES \ seen_requesters # {}
           THEN RulesError("missing_forms", "",
                           REQUIRED_REQUESTER_TYPES \ seen_requesters)
           ELSE NoRulesError
  ELSE IF FormError(forms[k], seen_requesters) # NoRulesError
    THEN FormError(forms[k], seen_requesters)
  ELSE ScanForms(forms, k + 1,
                 seen_requesters \cup {forms[k].requester_type})

\* validate_model without check 1.
validate_model_any_status(model) == ScanForms(model.forms, 1, {})

validate_model(model) ==
  IF model.init.status # "yes"
    THEN RulesError("runtime", "", {})
    ELSE ScanForms(model.forms, 1, {})

(***************************************************************************)
(* The form_fields table.  Rows are kept in the order of their ids (the    *)
(* insertion order); a row is <<requester_type, field_name, visible,       *)
(* required, label, options_json>>, the columns list_form_rules selects.   *)
(***************************************************************************)
\* SQL NULL in options_json: no text json.dumps writes equals it.
Null == <<"NULL">>

Quoted(text) == <<"\"">> \o text \o <<"\"">>

RECURSIVE JoinQuoted(_, _)
JoinQuoted(options, i) ==
  IF i > Len(options) THEN <<>>
  ELSE IF i = Len(options) THEN Quoted(options[i])
  ELSE Quoted(options[i]) \o <<",", " ">> \o JoinQuoted(options, i + 1)

\* json.dumps of a list of identifiers
json_dumps(options) == <<"[">> \o JoinQuoted(options, 1) \o <<"]">>

\* clear_form_rules whose DELETE spares the oldest row.
clear_form_rules_kept(table) ==
  IF table = <<>> THEN <<>> ELSE <<Head(table)>>

clear_form_rules(table) == <<>>

\* call holds the keyword arguments of the call.
save_form_field_rule(call, table) ==
  Append(table,
         <<call.requester_type, call.field_name,
           IF call.visible THEN 1 ELSE 0,
           IF call.required THEN 1 ELSE 0,
           call.label,
           IF call.options # Null THEN json_dumps(call.options) ELSE Null>>)

\* The place of a requester type or a field name in SQLite's text order.
NameRank ==
  [Academics |-> 1, Students |-> 2, end_time |-> 3, event_date |-> 4,
   event_name |-> 5, location |-> 6, requester_unit |-> 7, start_time |-> 8,
   submit_button |-> 9]

\* r sorts before q under ORDER BY requester_type, field_name.
RuleLess(r, q) ==
  IF r[1] # q[1] THEN NameRank[r[1]] < NameRank[q[1]]
  ELSE NameRank[r[2]] < NameRank[q[2]]

RECURSIVE InsertRule(_, _)
InsertRule(row, rows) ==
  IF rows = <<>> THEN <<row>>
  ELSE IF RuleLess(row, Head(rows)) THEN <<row>> \o rows
  ELSE <<Head(rows)>> \o InsertRule(row, Tail(rows))

RECURSIVE list_form_rules(_)
list_form_rules(table) ==
  IF table = <<>> THEN <<>>
  ELSE InsertRule(table[Len(table)],
                  list_form_rules(SubSeq(table, 1, Len(table) - 1)))

IsRequester(row, requester_type) == row[1] = requester_type

RuleColumns(rows) == [i \in 1..Len(rows) |-> SubSeq(rows[i], 2, 6)]

get_form_rules_for_requester(requester_type, table) ==
  RuleColumns(SelectSeq(table, LAMBDA row : IsRequester(row, requester_type)))

\* json.loads of an options_json text: the quoted items, in order.
RECURSIVE json_loads_from(_, _, _, _, _)
json_loads_from(text, i, inside, item, items) ==
  IF i > Len(text) THEN items
  ELSE IF text[i] = "\"" /\ inside
    THEN json_loads_from(text, i + 1, FALSE, <<>>, Append(items, item))
  ELSE IF text[i] = "\""
    THEN json_loads_from(text, i + 1, TRUE, <<>>, items)
  ELSE IF inside
    THEN json_loads_from(text, i + 1, TRUE, Append(item, text[i]), items)
  ELSE json_loads_from(text, i + 1, FALSE, item, items)

json_loads(text) == json_loads_from(text, 1, FALSE, <<>>, <<>>)

(***************************************************************************)
(* Rules documents: the models textX can hand to the two rules parsers.    *)
(***************************************************************************)
NoLabel == <<>>

FieldSpec(field_name, visible, required, label, options) ==
  [field_name |-> field_name, visible |-> visible, required |-> required,
   label |-> label, options |-> options]

Plain(field_name) == FieldSpec(field_name, "yes", "yes", NoLabel, <<>>)

Optional(field_name) == FieldSpec(field_name, "yes", "no", NoLabel, <<>>)

LocationField == FieldSpec("location", "yes", "yes", NoLabel, <<REC>>)

UnitField ==
  FieldSpec("requester_unit", "yes", "no", <<"U", "n", "i", "t">>,
            <<LIB, REC>>)

SubmitButton == FieldSpec("submit_button", "no", "no", NoLabel, <<>>)

\* The fields of the five-field form, in declared order.
GoodFields ==
  <<Plain("event_name"), Plain("event_date"), Plain("start_time"),
    Plain("end_time"), LocationField>>

UnitFields ==
  <<UnitField, LocationField, Plain("start_time"), Plain("end_time"),
    Plain("event_date"), Plain("event_name"), SubmitButton>>

DuplicateFieldFields == GoodFields \o <<Plain("location")>>

OptionsFields ==
  <<FieldSpec("event_name", "yes", "yes", NoLabel, <<REC>>),
    Plain("event_date"), Plain("start_time"), Plain("end_time"),
    LocationField>>

OptionalFields ==
  <<Optional("event_name"), Plain("event_date"), Plain("start_time"),
    Plain("end_time"), LocationField>>

OptionalAndMissingFields ==
  <<Optional("event_name"), Plain("event_date"), Plain("start_time"),
    Plain("end_time")>>

MissingLocationFields ==
  <<Plain("event_name"), Plain("event_date"), Plain("start_time"),
    Plain("end_time")>>

MissingTwoFields ==
  <<Plain("event_name"), Plain("event_date"), Plain("start_time")>>

FormSpec(requester_type, fields) ==
  [requester_type |-> requester_type, fields |-> fields]

RuleForms ==
  {FormSpec("Students", f) :
     f \in {GoodFields, DuplicateFieldFields, OptionsFields,
            OptionalAndMissingFields, MissingLocationFields}}
  \cup
  {FormSpec("Academics", f) :
     f \in {GoodFields, UnitFields, OptionalFields, MissingTwoFields}}

RulesDocument(status, forms) == [init |-> [status |-> status], forms |-> forms]

RulesDocuments ==
  {RulesDocument(status, forms) :
     status \in {"yes", "no"},
     forms \in UNION {[1..k -> RuleForms] : k \in 0..MaxForms}}

\* The documents given to the first-generation parser.
RulesDocumentsV1 ==
  {RulesDocument("yes", <<FormSpec("Students", GoodFields),
                          FormSpec("Academics", OptionalFields)>>),
   RulesDocument("no", <<FormSpec("Students", GoodFields),
                         FormSpec("Academics", OptionalFields)>>),
   RulesDocument("yes", <<FormSpec("Students", OptionsFields)>>),
   RulesDocument("yes", <<FormSpec("Students", DuplicateFieldFields)>>),
   RulesDocument("yes", <<FormSpec("Students", <<SubmitButton>>)>>)}

\* What model_from_str leaves when the text does not parse.
NoModel == RulesDocument("none", <<>>)

(***************************************************************************)
(* parse_rules_from_text.  The nested loops over forms and fields make one *)
(* save_form_field_rule call per field: SaveCalls lists them in the order  *)
(* of the loops.                                                           *)
(***************************************************************************)
SaveRuleCall(requester_type, field) ==
  [requester_type |-> requester_type,
   field_name |-> field.field_name,
   visible |-> field.visible = "yes",
   required |-> field.required = "yes",
   label |-> field.label,
   options |-> IF field.options # <<>> THEN field.options ELSE Null]

\* SaveCalls with the fields of each form taken last to first.
RECURSIVE SaveCallsReversed(_, _)
SaveCallsReversed(forms, k) ==
  IF k > Len(forms) THEN <<>>
  ELSE [i \in 1..Len(forms[k].fields) |->
          SaveRuleCall(forms[k].requester_type,
                       forms[k].fields[Len(forms[k].fields) + 1 - i])]
       \o SaveCallsReversed(forms, k + 1)

RECURSIVE SaveCalls(_, _)
SaveCalls(forms, k) ==
  IF k > Len(forms) THEN <<>>
  ELSE [i \in 1..Len(forms[k].fields) |->
          SaveRuleCall(forms[k].requester_type, forms[k].fields[i])]
       \o SaveCalls(forms, k + 1)

RECURSIVE SaveRules(_, _, _)
SaveRules(calls, n, table) ==
  IF n > Len(calls) THEN table
  ELSE SaveRules(calls, n + 1, save_form_field_rule(calls[n], table))

RulesResult(exc, error, count, table) ==
  [exc |-> exc, error |-> error, count |-> count, table |-> table]

\* parsers/rules.py: the runtime flag is the only check; clear, then save.
parse_rules_from_text_v1(model, table) ==
  IF model.init.status # "yes"
    THEN RulesResult("TextXError", RulesError("runtime", "", {}), 0, table)
    ELSE RulesResult("none", NoRulesError, Len(model.forms),
                     SaveRules(SaveCalls(model.forms, 1), 1,
                               clear_form_rules(table)))

(***************************************************************************)
(* parse_rules_from_text of eventdsl/parsers/rules.py, one database call   *)
(* at a time: clear_form_rules and every save_form_field_rule open their   *)
(* own connection and commit on their own, so other processes (the API     *)
(* server reading the rules) run between them, and each of them can fail   *)
(* (sqlite3.OperationalError) after the earlier ones have committed.       *)
(***************************************************************************)
StorageOutcomes == {"none", "OperationalError"}

RulesRecord(op, model, pre, previous, r) ==
  [op |-> op, model |-> model, pre |-> pre, previous |-> previous,
   exc |-> r.exc, error |-> r.error, count |-> r.count]

Idle(installed) == [pc |-> "idle", installed |-> installed]

\* parse_rules_from_text has returned or raised; r is its outcome.
RulesReturned(r, installed) ==
  /\ last' = RulesRecord("parse_rules_from_text", ingestion.model,
                         ingestion.pre, ingestion.previous, r)
  /\ ingestion' = Idle(installed)
  /\ pc' = "returned"

\* Lines 151-156: parse and validate.  A model that fails validation raises
\* here; a valid one goes on to clear_form_rules.
IngestRules ==
  /\ pc = "idle"
  /\ ingestion.pc = "idle"
  /\ \E model \in RulesDocuments :
       \E error \in {validate_model(model)} :
         IF error = NoRulesError
           THEN /\ ingestion' = [pc |-> "clear", model |-> model,
                                 pre |-> form_fields,
                                 previous |-> ingestion.installed,
                                 n |-> 1]
                /\ UNCHANGED <<pc, last>>
           ELSE /\ last' = RulesRecord("parse_rules_from_text", model,
                                       form_fields, ingestion.installed,
                                       RulesResult("TextXError", error, 0,
                                                   form_fields))
                /\ pc' = "returned"
                /\ UNCHANGED ingestion
  /\ UNCHANGED <<events, form_fields, requests>>

\* The text does not parse (either generation): model_from_str raises.
IngestRulesSyntaxError ==
  /\ pc = "idle"
  /\ ingestion.pc = "idle"
  /\ \E op \in {"parse_rules_from_text", "parse_rules_from_text_v1"} :
       last' = RulesRecord(op, NoModel, form_fields, ingestion.installed,
                           RulesResult("TextXSyntaxError", NoRulesError, 0,
                                       form_fields))
  /\ pc' = "returned"
  /\ UNCHANGED <<events, form_fields, ingestion, requests>>

\* Line 159: clear_form_rules()
ClearRules ==
  /\ pc = "idle"
  /\ ingestion.pc = "clear"
  /\ \E outcome \in StorageOutcomes :
       IF outcome = "none"
         THEN /\ form_fields' = clear_form_rules(form_fields)
              /\ ingestion' = [ingestion EXCEPT !.pc = "save"]
              /\ UNCHANGED <<pc, last>>
         ELSE /\ RulesReturned(RulesResult(outcome, NoRulesError, 0,
                                           form_fields), <<>>)
              /\ UNCHANGED form_fields
  /\ UNCHANGED <<events, requests>>

\* Lines 161-181: the next save_form_field_rule of the loops
SaveNextRule ==
  /\ pc = "idle"
  /\ ingestion.pc = "save"
  /\ ingestion.n <= Len(SaveCalls(ingestion.model.forms, 1))
  /\ \E outcome \in StorageOutcomes :
       IF outcome = "none"
         THEN /\ form_fields' =
                   save_form_field_rule(
                     SaveCalls(ingestion.model.forms, 1)[ingestion.n],
                     form_fields)
              /\ ingestion' = [ingestion EXCEPT !.n = @ + 1]
              /\ UNCHANGED <<pc, last>>
         ELSE /\ RulesReturned(RulesResult(outcome, NoRulesError, 0,
                                           form_fields), <<>>)
              /\ UNCHANGED form_fields
  /\ UNCHANGED <<events, requests>>

\* Line 183: return len(model.forms)
ReturnCount ==
  /\ pc = "idle"
  /\ ingestion.pc = "save"
  /\ ingestion.n > Len(SaveCalls(ingestion.model.forms, 1))
  /\ RulesReturned(RulesResult("none", NoRulesError,
                               Len(ingestion.model.forms), form_fields),
                   <<ingestion.model>>)
  /\ UNCHANGED <<events, form_fields, requests>>

\* parse_rules_from_text of parsers/rules.py on a text that parses
IngestRulesV1 ==
  /\ pc = "idle"
  /\ ingestion.pc = "idle"
  /\ \E model \in RulesDocumentsV1 :
       \E r \in {parse_rules_from_text_v1(model, form_fields)} :
         /\ form_fields' = r.table
         /\ last' = RulesRecord("parse_rules_from_text_v1", model,
                                form_fields, ingestion.installed, r)
         /\ ingestion' = Idle(IF r.exc = "none" THEN <<>>
                                                ELSE ingestion.installed)
  /\ pc' = "returned"
  /\ UNCHANGED <<events, requests>>

\* Another process reads the rules of one requester type (the API server's
\* get_form_config, the form's load_form).
ReadRequesterRules ==
  /\ pc = "idle"
  /\ \E requester_type \in REQUIRED_REQUESTER_TYPES :
       last' = [op |-> "get_form_rules_for_requester",
                requester_type |-> requester_type,
                rows |-> get_form_rules_for_requester(requester_type,
                                                      form_fields),
                ingestion |-> ingestion]
  /\ pc' = "returned"
  /\ UNCHANGED <<events, form_fields, ingestion, requests>>

(***************************************************************************)
(* GET /form-config.  A row of get_form_rules_for_requester is              *)
(* <<field_name, visible, required, label, options_json>>.  A label is text *)
(* (a sequence of characters); the field name that stands in for an empty   *)
(* label is written as the one-token text <<field_name>>.                   *)
(***************************************************************************)
\* The requester types a client asks for; only the first two are accepted.
RequesterTypesAsked == {"Academics", "Students", "Staff"}

\* FormField with the stored label, without the default.
FormFieldStoredLabel(rule) ==
  [field_name |-> rule[1], label |-> rule[4],
   visible |-> rule[2] # 0, required |-> rule[3] # 0,
   options |-> IF rule[5] # Null /\ rule[5] # <<>>
                 THEN json_loads(rule[5]) ELSE Null]

\* Lines 272-285: label or field_name, json.loads of a non-empty
\* options_json, bool(visible), bool(required).
FormField(rule) ==
  [field_name |-> rule[1],
   label |-> IF rule[4] # NoLabel THEN rule[4] ELSE <<rule[1]>>,
   visible |-> rule[2] # 0, required |-> rule[3] # 0,
   options |-> IF rule[5] # Null /\ rule[5] # <<>>
                 THEN json_loads(rule[5]) ELSE Null]

\* Lines 267-285: the loop over the rules, skipping those not visible.
RECURSIVE FormFields(_, _)
FormFields(rules, i) ==
  IF i > Len(rules) THEN <<>>
  ELSE IF rules[i][2] = 0 THEN FormFields(rules, i + 1)
  ELSE <<FormField(rules[i])>> \o FormFields(rules, i + 1)

FormConfigOf(rules) ==
  IF rules = <<>>
    THEN [status |-> 404, fields |-> <<>>]
    ELSE [status |-> 200, fields |-> FormFields(rules, 1)]

get_form_config(requester_type, table) ==
  IF requester_type \notin {"Academics", "Students"}
    THEN [status |-> 400, fields |-> <<>>]
    ELSE FormConfigOf(get_form_rules_for_requester(requester_type, table))

\* A client of the API fetches the form configuration of a requester type,
\* at any point of a running ingestion.
GetFormConfig ==
  /\ pc = "idle"
  /\ \E requester_type \in RequesterTypesAsked :
       \E r \in {get_form_config(requester_type, form_fields)} :
         last' = [op |-> "get_form_config",
                  requester_type |-> requester_type,
                  status |-> r.status, fields |-> r.fields]
  /\ pc' = "returned"
  /\ UNCHANGED <<events, form_fields, ingestion, requests>>

\* Another process lists all rules (refresh_rules_view of a second rules IDE).
ReadAllRules ==
  /\ pc = "idle"
  /\ last' = [op |-> "list_form_rules", requester_type |-> "",
              rows |-> list_form_rules(form_fields),
              ingestion |-> ingestion]
  /\ pc' = "returned"
  /\ UNCHANGED <<events, form_fields, ingestion, requests>>

NextRules ==
  \/ IngestRules
  \/ IngestRulesSyntaxError
  \/ ClearRules
  \/ SaveNextRule
  \/ ReturnCount
  \/ IngestRulesV1
  \/ ReadRequesterRules
  \/ ReadAllRules
  \/ GetFormConfig
  \/ Return

SpecRules == Init /\ [][NextRules]_vars

(***************************************************************************)
(* Vocabulary of the properties of the rules.                              *)
(***************************************************************************)
RulesIngested ==
  /\ pc = "returned"
  /\ last.op = "parse_rules_from_text"

RulesRead ==
  /\ pc = "returned"
  /\ last.op \in {"get_form_rules_for_requester", "list_form_rules"}

\* What the reader of last would get from a given table.
ReadFrom(table) ==
  IF last.op = "list_form_rules"
    THEN list_form_rules(table)
    ELSE get_form_rules_for_requester(last.requester_type, table)

\* The table after every field of the document has been written to an
\* empty table.
CompleteSet(model) == SaveRules(SaveCalls(model.forms, 1), 1, <<>>)

\* C11: when parse_rules_from_text fails (syntax error, semantic error or
\* storage failure), every stored field rule is as it was before the call.
C11_FailureLeavesRules ==
  (RulesIngested /\ last.exc # "none") => form_fields = last.pre

\* C12: a reader that runs while parse_rules_from_text is replacing the
\* rule set gets either the complete old rule set or the complete new one,
\* never an empty or a partly written one.
C12_ReadersSeeOldOrNew ==
  (RulesRead /\ last.ingestion.pc # "idle")
  => \/ last.rows = ReadFrom(last.ingestion.pre)
     \/ last.rows = ReadFrom(CompleteSet(last.ingestion.model))

(***************************************************************************)
(* POST /events, one database call at a time.  The server runs the         *)
(* handlers of different clients side by side; a handler's query, its      *)
(* insert and its read-back are separate connections, so the handler of    *)
(* another client can run between them.  pre is the table the handler's    *)
(* validation ran against.                                                 *)
(***************************************************************************)
Request(at, payload, pre, status, verdict, body) ==
  [pc |-> at, payload |-> payload, pre |-> pre, status |-> status,
   verdict |-> verdict, body |-> body]

\* Lines 326-337: the outcome of validate_event_scheduling decides whether
\* the handler answers 400, leaves with another exception (500) or goes on.
RequestValidated(req, verdict, table) ==
  IF verdict.kind \in SchedulingErrorKinds
    THEN Request("responded", req.payload, table, 400, verdict, <<>>)
  ELSE IF verdict.kind # "ok"
    THEN Request("responded", req.payload, table, 500, verdict, <<>>)
  ELSE Request("save", req.payload, table, 0, verdict, <<>>)

\* Lines 339-354: the outcome of save_event.
RequestSaved(req, saved) ==
  [req |-> IF saved.exc # "none"
             THEN Request("responded", req.payload, req.pre, 500,
                          req.verdict, <<>>)
             ELSE Request("read", req.payload, req.pre, 0, req.verdict, <<>>),
   table |-> saved.table]

\* Lines 356-370: the last row of list_events is returned.
RequestRead(req, table) ==
  Request("responded", req.payload, req.pre, 201, req.verdict,
          EventOut(LastRow(list_events(table))))

\* A handler that writes the event without looking at the validator.
StepRequestUnchecked(req, table) ==
  [req |-> Request("responded", req.payload, table, 201, NotCalled, <<>>),
   table |-> save_event(SaveCallWithCampus(req.payload), table).table]

\* The next database call of a handler, and the table it leaves.
StepRequest(req, table) ==
  IF req.pc = "validate"
    THEN [req |-> RequestValidated(
                    req,
                    validate_event_scheduling(ValidateCall(req.payload), table),
                    table),
          table |-> table]
  ELSE IF req.pc = "save"
    THEN RequestSaved(req,
                      save_event(SaveCallWithUnit(req.payload, None), table))
  ELSE [req |-> RequestRead(req, table), table |-> table]

\* A client posts an event.
ReceiveRequest(c) ==
  /\ pc = "idle"
  /\ requests[c].pc = "idle"
  /\ \E payload \in Drafts :
       requests' = [requests EXCEPT
                      ![c] = Request("validate", payload, <<>>, 0, NotCalled,
                                     <<>>)]
  /\ UNCHANGED <<events, pc, last, form_fields, ingestion>>

\* The handler of client c makes its next database call.
RequestStep(c) ==
  /\ pc = "idle"
  /\ requests[c].pc \in {"validate", "save", "read"}
  /\ \E r \in {StepRequest(requests[c], events)} :
       /\ Len(r.table) <= MaxEvents
       /\ requests' = [requests EXCEPT ![c] = r.req]
       /\ events' = r.table
  /\ UNCHANGED <<pc, last, form_fields, ingestion>>

\* The client takes the response.
TakeResponse(c) ==
  /\ pc = "idle"
  /\ requests[c].pc = "responded"
  /\ requests' = [requests EXCEPT ![c] = NoRequest]
  /\ UNCHANGED <<events, pc, last, form_fields, ingestion>>

NextRace ==
  \/ \E c \in Clients : ReceiveRequest(c)
  \/ \E c \in Clients : RequestStep(c)
  \/ \E c \in Clients : TakeResponse(c)

SpecRace == Init /\ [][NextRace]_vars

\* Both clients have their responses, and each handler validated before the
\* other saved: both validations ran against the same table.
RacedRequests ==
  /\ \A c \in Clients : requests[c].pc = "responded"
  /\ requests[1].pre = requests[2].pre

\* The row of the events table that holds a payload (ids aside).
Holds(row, d) ==
  /\ RowDate(row) = d.date
  /\ RowStart(row) = d.start
  /\ RowEnd(row) = d.end
  /\ RowLocation(row) = d.location
  /\ row[2] = d.name

\* C13: when two create_event executions for overlapping time ranges at the
\* same date and location interleave as validate, validate, save, save
\* (neither conflicting with a stored event), both pass the validator and
\* both are written: the store then holds the two overlapping events.
C13_BothPassBothWritten ==
  (/\ RacedRequests
   /\ \A c \in Clients :
        /\ Placeable(requests[c].payload)
        /\ OverlapSet(requests[c].payload, requests[c].pre) = {}
   /\ requests[1].payload.date = requests[2].payload.date
   /\ requests[1].payload.location = requests[2].payload.location
   /\ Minutes(requests[1].payload.start) < Minutes(requests[2].payload.end)
   /\ Minutes(requests[2].payload.start) < Minutes(requests[1].payload.end))
  => /\ \A c \in Clients : requests[c].status = 201
     /\ \E i, j \in 1..Len(events) :
          /\ i # j
          /\ Holds(events[i], requests[1].payload)
          /\ Holds(events[j], requests[2].payload)

\* The fields a document declares for a requester type, in declared order.
RECURSIVE Declared(_, _, _)
Declared(forms, k, requester_type) ==
  IF k > Len(forms) THEN <<>>
  ELSE (IF forms[k].requester_type = requester_type
          THEN forms[k].fields ELSE <<>>)
       \o Declared(forms, k + 1, requester_type)

RECURSIVE FieldCount(_, _)
FieldCount(forms, k) ==
  IF k > Len(forms) THEN 0
  ELSE Len(forms[k].fields) + FieldCount(forms, k + 1)

\* A row as get_form_rules_for_requester returns it is the declared field.
RowIsField(row, field) ==
  /\ row[1] = field.field_name
  /\ row[2] = (IF field.visible = "yes" THEN 1 ELSE 0)
  /\ row[3] = (IF field.required = "yes" THEN 1 ELSE 0)
  /\ row[4] = field.label
  /\ IF field.options = <<>>
       THEN row[5] = Null
       ELSE row[5] # Null /\ json_loads(row[5]) = field.options

RowsAreFields(rows, fields) ==
  /\ Len(rows) = Len(fields)
  /\ \A i \in 1..Len(rows) : RowIsField(rows[i], fields[i])

RulesStored == RulesIngested /\ last.exc = "none"

\* C14: a successful parse_rules_from_text returns the number of event_form
\* blocks of the document and leaves the table holding exactly the
\* document's field rows: no row from before the call remains, and
\* get_form_rules_for_requester(r) returns the fields declared in r's form,
\* in declared order.
C14_ReplacesRuleSet ==
  RulesStored
  => /\ last.count = Len(last.model.forms)
     /\ Len(form_fields) = FieldCount(last.model.forms, 1)
     /\ \A r \in REQUIRED_REQUESTER_TYPES :
          RowsAreFields(get_form_rules_for_requester(r, form_fields),
                        Declared(last.model.forms, 1, r))

\* A document with a hidden field and options has replaced another rule set.
C14_Witness ==
  /\ RulesStored
  /\ last.pre # <<>>
  /\ last.pre # form_fields
  /\ last.model.forms[1].fields = UnitFields

\* The document stored by this call is the one the call before it stored.
StoredAgain == RulesStored /\ last.previous = <<last.model>>

\* C15: ingesting the same valid rules document a second time in a row
\* leaves the stored rule set as the first ingestion left it: the same
\* rows in the same order, none of them twice.
C15_Idempotent ==
  StoredAgain => form_fields = last.pre

\* The same two-form document has been ingested twice in a row.
C15_Witness ==
  /\ StoredAgain
  /\ Len(last.model.forms) = 2
  /\ Len(form_fields) = FieldCount(last.model.forms, 1)

(***************************************************************************)
(* The rules of section 4.3 of the specification, each read over the       *)
(* whole document, independently of validate_model above.                  *)
(***************************************************************************)
FormsOf(model) == {model.forms[k] : k \in 1..Len(model.forms)}

FieldsOf(form) == {form.fields[i] : i \in 1..Len(form.fields)}

FieldNames(form) == {f.field_name : f \in FieldsOf(form)}

RuntimeOff(model) == model.init.status # "yes"

DuplicateForm(model) ==
  \E j, k \in 1..Len(model.forms) :
    j < k /\ model.forms[j].requester_type = model.forms[k].requester_type

DuplicateField(form) ==
  \E i, j \in 1..Len(form.fields) :
    i < j /\ form.fields[i].field_name = form.fields[j].field_name

MisplacedOptions(form) ==
  \E f \in FieldsOf(form) :
    f.options # <<>> /\ f.field_name \notin {"location", "requester_unit"}

MandatoryNames ==
  {"event_name", "event_date", "start_time", "end_time", "location"}

MissingMandatory(form) == MandatoryNames \ FieldNames(form)

MandatoryNotRequired(form) ==
  \E f \in FieldsOf(form) :
    f.field_name \in MandatoryNames /\ f.required # "yes"

MissingForms(model) ==
  {"Academics", "Students"} \ {form.requester_type : form \in FormsOf(model)}

\* The kinds of error that report the first violated rule, in the order of
\* section 4.3.
FirstViolated(model) ==
  IF RuntimeOff(model) THEN {"runtime"}
  ELSE IF DuplicateForm(model) THEN {"duplicate_form"}
  ELSE IF \E form \in FormsOf(model) : DuplicateField(form)
    THEN {"duplicate_field"}
  ELSE IF \E form \in FormsOf(model) : MisplacedOptions(form)
    THEN {"options"}
  ELSE IF \E form \in FormsOf(model) :
            MissingMandatory(form) # {} \/ MandatoryNotRequired(form)
    THEN {"missing_fields", "required"}
  ELSE IF MissingForms(model) # {} THEN {"missing_forms"}
  ELSE {"ok"}

RulesRejected == RulesIngested /\ last.exc = "TextXError"

\* C16: the error of validate_model is the first violated rule in the order
\* runtime flag, duplicate requester type across forms, duplicate field
\* name within a form, options on a field outside the allow-list,
\* mandatory-field presence and required, missing required requester
\* types, taken over the whole document: a document with a duplicate
\* requester type in a later form and a duplicate field (or misplaced
\* options, or a missing mandatory field) in an earlier form is reported
\* for the duplicate requester type.
C16_SpecOrder ==
  RulesRejected => last.error.kind \in FirstViolated(last.model)

RulesIngestedEither ==
  /\ pc = "returned"
  /\ last.op \in {"parse_rules_from_text", "parse_rules_from_text_v1"}

\* C17: a rules document that parses and whose initialize_runtime is not
\* yes fails with the runtime error whatever its forms are, and the stored
\* rule set is as it was before the call, in both generations of the rules
\* parser.
C17_RuntimeOffRejected ==
  (RulesIngestedEither /\ last.model # NoModel /\ RuntimeOff(last.model))
  => /\ last.exc = "TextXError"
     /\ last.error.kind = "runtime"
     /\ form_fields = last.pre

\* A document with the runtime off and a duplicate requester type has been
\* given to parse_rules_from_text while rules were stored.
C17_Witness ==
  /\ RulesIngested
  /\ RuntimeOff(last.model)
  /\ DuplicateForm(last.model)
  /\ last.error.kind = "runtime"
  /\ last.pre # <<>>

\* No rule ordered before the mandatory-field rule is violated.
NoEarlierViolation(model) ==
  /\ ~RuntimeOff(model)
  /\ ~DuplicateForm(model)
  /\ \A form \in FormsOf(model) :
       ~DuplicateField(form) /\ ~MisplacedOptions(form)

\* C18: for a document with the runtime enabled and no earlier-ordered
\* violation in which some form lacks a field of the mandatory set,
\* validate_model fails and the failure names the requester type of such a
\* form and every mandatory field that form lacks.
C18_NamesMissingFields ==
  (/\ RulesIngested
   /\ last.model # NoModel
   /\ NoEarlierViolation(last.model)
   /\ \E form \in FormsOf(last.model) : MissingMandatory(form) # {})
  => /\ last.exc = "TextXError"
     /\ \E form \in FormsOf(last.model) :
          /\ MissingMandatory(form) # {}
          /\ last.error.requester = form.requester_type
          /\ MissingMandatory(form) \subseteq last.error.names

StoredRules == {form_fields[i] : i \in 1..Len(form_fields)}

\* C19: validate_model rejects every document in which a field of the
\* mandatory set has required other than yes, and after any successful
\* rules ingestion (either generation of the parser) every stored rule for
\* a mandatory field name has required = 1.  Stated as the claim; the
\* first-generation parser stores the fields without validating them.
C19_MandatoryAlwaysRequired ==
  /\ (/\ RulesIngested
      /\ last.model # NoModel
      /\ \E form \in FormsOf(last.model) : MandatoryNotRequired(form))
     => last.exc = "TextXError"
  /\ (RulesIngestedEither /\ last.exc = "none")
     => \A row \in StoredRules : row[2] \in MandatoryNames => row[4] = 1

C21_OneRowPerKey ==
  /\ (/\ RulesIngested
      /\ last.model # NoModel
      /\ \/ DuplicateForm(last.model)
         \/ \E form \in FormsOf(last.model) : DuplicateField(form))
     => last.exc = "TextXError"
  /\ (RulesIngestedEither /\ last.exc = "none")
     => \A i, j \in 1..Len(form_fields) :
          (/\ form_fields[i][1] = form_fields[j][1]
           /\ form_fields[i][2] = form_fields[j][2]) => i = j

\* The forms of a document for one requester type.
FormsFor(model, requester_type) ==
  {k \in 1..Len(model.forms) :
     model.forms[k].requester_type = requester_type}

\* What C22 says of every document and of every successful ingestion.
C22_Accepted ==
  /\ RulesStored
     => /\ \A r \in {"Academics", "Students"} :
             Cardinality(FormsFor(last.model, r)) = 1
        /\ \A r \in {"Academics", "Students"} :
             get_form_rules_for_requester(r, form_fields) # <<>>
  /\ (/\ RulesIngested
      /\ last.model # NoModel
      /\ MissingForms(last.model) # {})
     => last.exc = "TextXError"

Acceptable ==
  /\ Validated
  /\ Placeable(Candidate)
  /\ WellTimed(last.pre)
  /\ OverlapSet(Candidate, last.pre) = {}

\* The event a response body describes is the row the call appended: the id
\* storage gave it and the field values of the request.
BodyIsNewRow ==
  /\ Len(events) = Len(last.pre) + 1
  /\ SubSeq(events, 1, Len(last.pre)) = last.pre
  /\ last.body.id = events[Len(events)][1]
  /\ last.body.id \notin {row[1] : row \in Rows(last.pre)}
  /\ last.body.name = Candidate.name
  /\ last.body.requester_type = Candidate.requester_type
  /\ last.body.date = Candidate.date
  /\ last.body.start_time = Candidate.start
  /\ last.body.end_time = Candidate.end
  /\ last.body.location = Candidate.location
  /\ last.body.requester_unit = last.requester_unit

Rejected == Validated /\ last.verdict.kind \in SchedulingErrorKinds

\* C24: a create-event request rejected by the scheduling validator changes
\* nothing: the stored events and their listing after the rejection are
\* those before it, and the response is the client error (400) carrying the
\* scheduling error and no event.
C24_RejectionChangesNothing ==
  Rejected
  => /\ events = last.pre
     /\ list_events(events) = list_events(last.pre)
     /\ last.status = 400
     /\ last.detail = "SchedulingValidationError"
     /\ last.body = <<>>

\* A request shorter than an hour has been rejected while events were
\* stored.
C24_Witness ==
  /\ Rejected
  /\ last.verdict.kind = "duration"
  /\ last.status = 400
  /\ last.pre # <<>>

\* The call failed on storage: the validator's query or the write raised
\* something other than a scheduling error.
StorageFailed ==
  /\ Validated
  /\ \/ last.verdict.kind \notin SchedulingErrorKinds \cup {"ok"}
     \/ last.verdict.kind = "ok" /\ last.status # 201

FormConfigRead ==
  /\ pc = "returned"
  /\ last.op = "get_form_config"

\* The stored rules of a requester type, in insertion order, and those of
\* them with visible = 1.
StoredFor(requester_type) ==
  SelectSeq(form_fields, LAMBDA row : row[1] = requester_type)

VisibleFor(requester_type) ==
  SelectSeq(StoredFor(requester_type), LAMBDA row : row[3] = 1)

\* The field sent to the client is the stored rule: same name, the stored
\* label or else the field name, visible, the stored required flag and the
\* stored options.
FieldIsRow(field, row) ==
  /\ field.field_name = row[2]
  /\ field.label = (IF row[5] # NoLabel THEN row[5] ELSE <<row[2]>>)
  /\ field.visible
  /\ field.required = (row[4] = 1)
  /\ IF row[6] = Null THEN field.options = Null
                      ELSE /\ field.options # Null
                           /\ json_dumps(field.options) = row[6]

\* The outcome claimed for a requester type with this stored rule set.
ConfigOutcome(stored, shown) ==
  IF stored = <<>>
    THEN last.status = 404
    ELSE /\ last.status = 200
         /\ Len(last.fields) = Len(shown)
         /\ \A i \in 1..Len(shown) : FieldIsRow(last.fields[i], shown[i])

\* C26 as stated: fetching the form configuration of a requester type
\* yields 404 exactly when no rule row is stored for it, an empty sequence
\* when rows are stored and none is visible, and otherwise the stored rules
\* with visible = true in insertion order, the label defaulting to the field
\* name.
C26_FormConfig ==
  FormConfigRead
  => ConfigOutcome(StoredFor(last.requester_type),
                   VisibleFor(last.requester_type))

\* C26 amended: that holds for the requester types Academics and Students;
\* for any other requester type the outcome is the invalid-request error
\* (400).
C26_FormConfigOfAcceptedTypes ==
  FormConfigRead
  => IF last.requester_type \in {"Academics", "Students"}
       THEN ConfigOutcome(StoredFor(last.requester_type),
                          VisibleFor(last.requester_type))
       ELSE last.status = 400 /\ last.fields = <<>>

\* The configuration of Academics has been fetched while its stored rule
\* set had a hidden rule, a rule with a label and rules without one.
C26_Witness ==
  /\ FormConfigRead
  /\ last.requester_type = "Academics"
  /\ last.status = 200
  /\ 0 < Len(last.fields)
  /\ Len(last.fields) < Len(StoredFor("Academics"))
  /\ \E i \in 1..Len(last.fields) :
       last.fields[i].label = <<"U", "n", "i", "t">>
  /\ \E i \in 1..Len(last.fields) :
       last.fields[i].label = <<last.fields[i].field_name>>

\* C27: persisted events are append-only.  No step of any operation of the
\* API, the batch ingestion or the form deletes or changes a stored row:
\* the rows stored before the step are stored after it with the same ids
\* and fields, and every row that list_events returned before is returned
\* after.
C27_AppendOnly ==
  [][/\ Len(events') >= Len(events)
     /\ SubSeq(events', 1, Len(events)) = events
     /\ Rows(list_events(events)) \subseteq Rows(list_events(events'))]_vars

\* An operation has appended a row to a store that already held one.
C27_Witness ==
  /\ IsWrite
  /\ last.pre # <<>>
  /\ Len(events) > Len(last.pre)
  /\ SubSeq(events, 1, Len(last.pre)) = last.pre

(***************************************************************************)
(* Batch ingestion step by step, with a reader.  Every call of             *)
(* validate_event_scheduling and of save_event is a step of its own        *)
(* (save_event commits its INSERT before it returns, db.py:52-63), and     *)
(* another process may call list_events between any two of them.           *)
(* parse_and_save_events of eventdsl/parsers/events.py starts in its first *)
(* pass, that of parsers/events.py in its only loop.                       *)
(***************************************************************************)
Batch(at, op, drafts, pre, i) ==
  [pc |-> at, op |-> op, drafts |-> drafts, pre |-> pre, i |-> i]

\* The save_event call each generation of the parser makes.
BatchSaveCall(op, d) ==
  IF op = "parse_and_save_events" THEN SaveCall(d) ELSE SaveCallWithCampus(d)

\* parse_and_save_events has returned or raised; r is its outcome.
BatchReturned(r) ==
  /\ last' = BatchRecord(ingestion.op, ingestion.drafts, r, ingestion.pre)
  /\ ingestion' = NoIngestion
  /\ pc' = "returned"

\* init_db and model_from_file on a file that parses
StartBatch ==
  /\ pc = "idle"
  /\ ingestion.pc = "idle"
  /\ \/ \E drafts \in Batches :
          ingestion' = Batch("validate", "parse_and_save_events", drafts,
                             events, 1)
     \/ \E drafts \in BatchesV1 :
          /\ Len(events) + Len(drafts) <= MaxEvents
          /\ ingestion' = Batch("save", "parse_and_save_events_v1", drafts,
                                events, 1)
  /\ UNCHANGED <<events, pc, last, form_fields, requests>>

\* eventdsl/parsers/events.py lines 49-71: the validation of the next event
ValidateNext ==
  /\ pc = "idle"
  /\ ingestion.pc = "validate"
  /\ IF ingestion.i > Len(ingestion.drafts)
       THEN /\ ingestion' = [ingestion EXCEPT !.pc = "save", !.i = 1]
            /\ UNCHANGED <<pc, last>>
       ELSE \E verdict \in {validate_event_scheduling(
                               ValidateCall(ingestion.drafts[ingestion.i]),
                               events)} :
              IF verdict.kind = "ok"
                THEN /\ ingestion' = [ingestion EXCEPT !.i = @ + 1]
                     /\ UNCHANGED <<pc, last>>
                ELSE BatchReturned(ValidationFailure(ingestion.i, verdict,
                                                     events))
  /\ UNCHANGED <<events, form_fields, requests>>

\* eventdsl/parsers/events.py lines 73-82 and parsers/events.py lines 22-31:
\* the save_event of the next event, or the return after the last one.  A
\* call that binds may still fail in storage (a locked or full database).
SaveNext ==
  /\ pc = "idle"
  /\ ingestion.pc = "save"
  /\ IF ingestion.i > Len(ingestion.drafts)
       THEN /\ BatchReturned(BatchResult(
                             "none", "save", 0, NotCalled,
                             IF ingestion.op = "parse_and_save_events"
                               THEN Len(ingestion.drafts) ELSE 0,
                             events))
            /\ UNCHANGED events
       ELSE \E outcome \in StorageOutcomes,
               saved \in {save_event(
                             BatchSaveCall(ingestion.op,
                                           ingestion.drafts[ingestion.i]),
                             events)} :
              IF saved.exc = "none" /\ outcome = "none"
                THEN /\ events' = saved.table
                     /\ ingestion' = [ingestion EXCEPT !.i = @ + 1]
                     /\ UNCHANGED <<pc, last>>
                ELSE /\ BatchReturned(BatchResult(
                                        IF saved.exc # "none"
                                          THEN saved.exc ELSE outcome,
                                        "save", ingestion.i, NotCalled, 0,
                                        events))
                     /\ UNCHANGED events
  /\ UNCHANGED <<form_fields, requests>>

\* Another process lists the events (GET /events, print_all_events).
ListEvents ==
  /\ pc = "idle"
  /\ last' = [op |-> "list_events", rows |-> list_events(events),
              ingestion |-> ingestion]
  /\ pc' = "returned"
  /\ UNCHANGED <<events, form_fields, ingestion, requests>>

NextBatch ==
  \/ StartBatch
  \/ ValidateNext
  \/ SaveNext
  \/ ListEvents
  \/ Return

SpecBatch == Init /\ [][NextBatch]_vars

\* A reader has listed the events while a batch of two or more valid drafts
\* (well-formed, at least an hour long, free of conflict with the events
\* stored when the batch started) was being ingested.
ReadDuringBatch ==
  /\ pc = "returned"
  /\ last.op = "list_events"
  /\ last.ingestion.pc \in {"validate", "save"}
  /\ Len(last.ingestion.drafts) >= 2
  /\ WellTimed(last.ingestion.pre)
  /\ \A i \in 1..Len(last.ingestion.drafts) :
       /\ Placeable(last.ingestion.drafts[i])
       /\ OverlapSet(last.ingestion.drafts[i], last.ingestion.pre) = {}

\* The events of the batch among the rows the reader got.
SeenOfBatch == Rows(last.rows) \ Rows(last.ingestion.pre)

\* C28: a reader that calls list_events at any point of a running
\* parse_and_save_events for a batch of two or more valid drafts sees none
\* of the batch's events or all of them, never some of them.
C28_BatchSeenWhole ==
  ReadDuringBatch
  => Cardinality(SeenOfBatch) \in {0, Len(last.ingestion.drafts)}

(***************************************************************************)
(* model_to_dict, api_server.py.  An object graph is a heap: a function    *)
(* from node ids to nodes, each an attribute-bearing object (its __dict__  *)
(* as the sequence of its entries, in order) or a list (its items).  A     *)
(* value is a reference to a node, None or a primitive.  Attribute names   *)
(* are text.  The class of an object is written as its node id, so that    *)
(* the output tells which object a dict or a marker stands for.            *)
(***************************************************************************)
MaxDepth == 2

\* max_depth: int = 20
DefaultMaxDepth == 20

Nodes == {1, 2}

Ref(n) == [tag |-> "ref", node |-> n]
NoneValue == [tag |-> "none", node |-> 0]
Primitive == [tag |-> "prim", node |-> 0]

Slot(name, value) == [name |-> name, value |-> value]

ObjectNode(slots) == [kind |-> "object", slots |-> slots]
ListNode(items) ==
  [kind |-> "list", slots |-> [i \in 1..Len(items) |-> Slot(<<>>, items[i])]]

LeftName == <<"l", "e", "f", "t">>
RightName == <<"r", "i", "g", "h", "t">>
ParentName == <<"p", "a", "r", "e", "n", "t">>
HiddenName == <<"_", "t", "x">>

\* A value of the output: None, a primitive, a list, the dict of an object,
\* {"__type__": ..., "__note__": "circular_reference"} or
\* {"__type__": "MaxDepthReached"}.  parts are the items of a list or the
\* entries of a dict after "__type__", each with its key.
Out(kind, type, parts) == [kind |-> kind, type |-> type, parts |-> parts]

\* What a call returns, with the visited set as the call leaves it and the
\* record of the calls made on objects: for each, the object, the depth,
\* whether the object was in visited and the kind of value returned.
Converted(out, visited, log) == [out |-> out, visited |-> visited, log |-> log]

Encounter(node, depth, visited, kind) ==
  [node |-> node, depth |-> depth, known |-> node \in visited, kind |-> kind]

\* The loop skipping the names that start with an underscore only.
SkippedUnderscoreOnly(name) == Len(name) >= 1 /\ name[1] = "_"

\* Lines 190-193: attr_name.startswith("_"), and the parent attributes.
Skipped(name) ==
  \/ Len(name) >= 1 /\ name[1] = "_"
  \/ name \in {<<"p", "a", "r", "e", "n", "t">>, <<"p", "a", "r", "e", "n", "t", "_", "o", "b", "j">>, <<"p", "a", "r", "e", "n", "t", "_", "r", "e", "f">>}

\* The depth guard letting one more level through.
DepthExceededLate(current_depth, max_depth) == current_depth > max_depth + 1

\* Line 152: current_depth > max_depth
DepthExceeded(current_depth, max_depth) == current_depth > max_depth

\* visited left as it was.
VisitNothing(visited, node) == visited

\* Line 183: visited.add(obj_id)
Visit(visited, node) == visited \cup {node}

IsObject(heap, value) ==
  value.tag = "ref" /\ heap[value.node].kind = "object"

\* The record of calls, with this call added when it is on an object.
Logged(heap, value, depth, visited, log, kind) ==
  IF IsObject(heap, value)
    THEN Append(log, Encounter(value.node, depth, visited, kind))
    ELSE log

RECURSIVE model_to_dict(_, _, _, _, _, _)
RECURSIVE ConvertSlots(_, _, _, _, _, _, _)
RECURSIVE ConvertRest(_, _, _, _, _, _)

\* A list or a dict made of the converted items or attributes.
Wrapped(kind, type, r) == Converted(Out(kind, type, r.parts), r.visited, r.log)

model_to_dict(heap, obj, max_depth, current_depth, visited, log) ==
  IF obj.tag = "none"
    THEN Converted(Out("null", 0, <<>>), visited, log)
  ELSE IF DepthExceeded(current_depth, max_depth)
    THEN Converted(Out("maxdepth", 0, <<>>), visited,
                   Logged(heap, obj, current_depth, visited, log, "maxdepth"))
  ELSE IF obj.tag = "prim"
    THEN Converted(Out("prim", 0, <<>>), visited, log)
  ELSE IF heap[obj.node].kind = "list"
    THEN Wrapped("list", 0,
                 ConvertSlots(heap, heap[obj.node].slots, 1, max_depth,
                              current_depth + 1, visited, log))
  ELSE IF obj.node \in visited
    THEN Converted(Out("circular", obj.node, <<>>), visited,
                   Logged(heap, obj, current_depth, visited, log, "circular"))
  ELSE Wrapped("dict", obj.node,
               ConvertSlots(heap, heap[obj.node].slots, 1, max_depth,
                            current_depth + 1, Visit(visited, obj.node),
                            Logged(heap, obj, current_depth, visited, log,
                                   "dict")))

\* The loop over the items of a list (no name is skipped: an item has the
\* empty name) or over obj.__dict__.items(), from entry i on.
ConvertSlots(heap, slots, i, max_depth, depth, visited, log) ==
  IF i > Len(slots)
    THEN [parts |-> <<>>, visited |-> visited, log |-> log]
  ELSE IF Skipped(slots[i].name)
    THEN ConvertSlots(heap, slots, i + 1, max_depth, depth, visited, log)
  ELSE ConvertRest(heap, slots, i, max_depth, depth,
                   model_to_dict(heap, slots[i].value, max_depth, depth,
                                 visited, log))

\* Entry i is converted; the entries after it see the visited set it left.
ConvertRest(heap, slots, i, max_depth, depth, first) ==
  [ConvertSlots(heap, slots, i + 1, max_depth, depth, first.visited,
                first.log)
     EXCEPT !.parts = <<Slot(slots[i].name, first.out)>> \o @]


\* The object graphs converted: every heap of the nodes whose nodes are
\* lists of up to two items or objects with up to two attributes, among
\* them a parent attribute and an attribute whose name starts with an
\* underscore.
Values == {Ref(n) : n \in Nodes} \cup {NoneValue, Primitive}

ListShapes ==
  {ListNode(items) : items \in UNION {[1..k -> Values] : k \in 0..2}}

NamePairs ==
  {<<LeftName, RightName>>, <<ParentName, LeftName>>,
   <<HiddenName, LeftName>>}

ObjectShapes ==
  {ObjectNode(<<>>)}
    \cup {ObjectNode(<<Slot(LeftName, v)>>) : v \in Values}
    \cup {ObjectNode(<<Slot(names[1], v), Slot(names[2], w)>>) :
            names \in NamePairs, v \in Values, w \in Values}

Heaps == [Nodes -> ListShapes \cup ObjectShapes]

\* The model textX builds for a rules text with one form of one field: the
\* model (1) with its init (2) and its forms (3), the form (4) with its
\* fields (5), the field (6); each child refers to its parent.
RulesAst ==
  <<ObjectNode(<<Slot(<<"_", "t", "x", "_", "p", "a", "r", "s", "e", "r">>, Primitive), Slot(<<"i", "n", "i", "t">>, Ref(2)),
                 Slot(<<"f", "o", "r", "m", "s">>, Ref(3))>>),
    ObjectNode(<<Slot(<<"p", "a", "r", "e", "n", "t">>, Ref(1)), Slot(<<"s", "t", "a", "t", "u", "s">>, Primitive)>>),
    ListNode(<<Ref(4)>>),
    ObjectNode(<<Slot(<<"p", "a", "r", "e", "n", "t">>, Ref(1)), Slot(<<"r", "e", "q", "u", "e", "s", "t", "e", "r", "_", "t", "y", "p", "e">>, Primitive),
                 Slot(<<"f", "i", "e", "l", "d", "s">>, Ref(5))>>),
    ListNode(<<Ref(6)>>),
    ObjectNode(<<Slot(<<"p", "a", "r", "e", "n", "t">>, Ref(4)), Slot(<<"f", "i", "e", "l", "d", "_", "n", "a", "m", "e">>, Primitive),
                 Slot(<<"v", "i", "s", "i", "b", "l", "e">>, Primitive), Slot(<<"r", "e", "q", "u", "i", "r", "e", "d">>, Primitive),
                 Slot(<<"l", "a", "b", "e", "l">>, Primitive), Slot(<<"o", "p", "t", "i", "o", "n", "s">>, NoneValue)>>)>>

ToDictRecord(op, status, heap, max_depth, r) ==
  [op |-> op, status |-> status, heap |-> heap, max_depth |-> max_depth,
   out |-> r.out, visited |-> r.visited, log |-> r.log]

\* model_to_dict(obj, max_depth) on the object that is node 1 of a heap
ConvertGraph ==
  /\ pc = "idle"
  /\ \E heap \in Heaps, max_depth \in 0..MaxDepth :
       last' = ToDictRecord("model_to_dict", 200, heap, max_depth,
                            model_to_dict(heap, Ref(1), max_depth, 0, {},
                                          <<>>))
  /\ pc' = "returned"
  /\ UNCHANGED <<events, concurrent>>

\* POST /rules-ast: model_to_dict(model) with the default depth when the
\* text parses, 400 when it does not
GetRulesAst ==
  /\ pc = "idle"
  /\ \/ last' = ToDictRecord("get_rules_ast", 200, RulesAst, DefaultMaxDepth,
                             model_to_dict(RulesAst, Ref(1), DefaultMaxDepth,
                                           0, {}, <<>>))
     \/ last' = ToDictRecord("get_rules_ast", 400, <<>>, DefaultMaxDepth,
                             Converted(Out("null", 0, <<>>), {}, <<>>))
  /\ pc' = "returned"
  /\ UNCHANGED <<events, concurrent>>

NextAst == ConvertGraph \/ GetRulesAst \/ Return

SpecAst == Init /\ [][NextAst]_vars


(***************************************************************************)
(* Properties of model_to_dict.                                            *)
(***************************************************************************)
ToDictDone ==
  /\ pc = "returned"
  /\ last.op \in {"model_to_dict", "get_rules_ast"}
  /\ last.status = 200

\* The attributes of an object that are converted.
Kept(slots) == SelectSeq(slots, LAMBDA slot : ~Skipped(slot.name))

\* out is what the value at this depth is converted to under maximum depth
\* d: None stays None; below the maximum a primitive stays a primitive, a
\* list becomes the list of its converted items, an object becomes its dict
\* (its kept attributes converted, in order) or its circular marker; past
\* the maximum everything else becomes the MaxDepthReached marker.
RECURSIVE Corresponds(_, _, _, _, _)
Corresponds(heap, value, out, depth, d) ==
  IF value.tag = "none" THEN out.kind = "null"
  ELSE IF depth > d THEN out.kind = "maxdepth" /\ out.parts = <<>>
  ELSE IF value.tag = "prim" THEN out.kind = "prim"
  ELSE IF heap[value.node].kind = "list"
    THEN /\ out.kind = "list"
         /\ Len(out.parts) = Len(heap[value.node].slots)
         /\ \A i \in 1..Len(out.parts) :
              Corresponds(heap, heap[value.node].slots[i].value,
                          out.parts[i].value, depth + 1, d)
  ELSE /\ out.kind \in {"dict", "circular"}
       /\ out.type = value.node
       /\ out.kind = "circular" => out.parts = <<>>
       /\ out.kind = "dict"
          => /\ Len(out.parts) = Len(Kept(heap[value.node].slots))
             /\ \A i \in 1..Len(out.parts) :
                  /\ out.parts[i].name = Kept(heap[value.node].slots)[i].name
                  /\ Corresponds(heap,
                                 Kept(heap[value.node].slots)[i].value,
                                 out.parts[i].value, depth + 1, d)

\* The number of levels of the output below its root.
RECURSIVE Height(_)
Height(out) ==
  IF out.parts = <<>> THEN 0
  ELSE 1 + CHOOSE h \in {Height(out.parts[i].value) : i \in 1..Len(out.parts)} :
             \A i \in 1..Len(out.parts) : Height(out.parts[i].value) <= h

Encounters == {last.log[i] : i \in 1..Len(last.log)}

\* C30: model_to_dict with maximum depth d expands no object at a depth
\* greater than d; every value other than None reached at depth d + 1
\* becomes the MaxDepthReached marker, every value at depth d or less is
\* converted normally, and the output has at most d + 1 levels below its
\* root.
C30_DepthBound ==
  ToDictDone
  => /\ Corresponds(last.heap, Ref(1), last.out, 0, last.max_depth)
     /\ Height(last.out) <= last.max_depth + 1
     /\ \A e \in Encounters : e.kind = "dict" => e.depth <= last.max_depth

\* A conversion with maximum depth 2 has reached an object at depth 3 and
\* has put the marker there.
C30_Witness ==
  /\ ToDictDone
  /\ last.max_depth = 2
  /\ Height(last.out) = 3
  /\ \E e \in Encounters : e.depth = 3 /\ e.kind = "maxdepth"


\* The calls that expanded object n into its dict.
Expansions(n) ==
  {i \in 1..Len(last.log) : last.log[i].node = n /\ last.log[i].kind = "dict"}

\* What C29 says of every conversion besides the later encounters: the call
\* returns a value, and no object is expanded more than once.
C29_ExpandedOnce ==
  /\ last.out.kind \in {"null", "prim", "list", "dict"}
  /\ \A n \in DOMAIN last.heap : Cardinality(Expansions(n)) <= 1
  /\ \A e \in Encounters :
       (~e.known /\ e.depth <= last.max_depth) => e.kind = "dict"

\* C29 as stated: model_to_dict returns on every finite object graph,
\* cycles and back-references included; each object is expanded at most
\* once in a conversion and every later encounter of an object already
\* visited yields the circular_reference marker.
C29_LaterEncountersCircular ==
  ToDictDone
  => /\ C29_ExpandedOnce
     /\ \A e \in Encounters : e.known => e.kind = "circular"

\* C29 amended: a later encounter of an object already visited yields the
\* circular_reference marker when it is at a depth within the maximum, and
\* the MaxDepthReached marker when it is deeper (the depth guard comes
\* first); in neither case is the object expanded again.
C29_LaterEncountersMarked ==
  ToDictDone
  => /\ C29_ExpandedOnce
     /\ \A e \in Encounters :
          e.known => e.kind = (IF e.depth <= last.max_depth
                                 THEN "circular" ELSE "maxdepth")

\* A conversion has met the object at the root again, on a cycle through
\* the other node, and has put the circular marker there.
C29_Witness ==
  /\ ToDictDone
  /\ last.max_depth = 2
  /\ \E e \in Encounters :
       e.node = 1 /\ e.known /\ e.depth = 2 /\ e.kind = "circular"
  /\ \E e \in Encounters : e.node = 2 /\ e.kind = "dict"


(***************************************************************************)
(* Properties of the failures of batch ingestion.                          *)
(***************************************************************************)
\* A draft the scheduling rules reject against a table: malformed times,
\* start not before end, less than an hour, or a stored event overlapping
\* it at its date and location.
Fails(d, table) == ~Placeable(d) \/ OverlapSet(d, table) # {}

FailingDrafts(drafts, table) ==
  {i \in 1..Len(drafts) : Fails(drafts[i], table)}

BatchFailed ==
  /\ pc = "returned"
  /\ last.op = "parse_and_save_events"
  /\ last.stage # "parse"
  /\ last.exc # "none"

\* C31: when batch ingestion of a text that parses fails, the error is the
\* scheduling error of the first draft in document order that the
\* scheduling rules reject, it identifies that draft, and validation stopped
\* there: the drafts before it were validated and none after it.
C31_FirstFailingIdentified ==
  BatchFailed
  => /\ FailingDrafts(last.drafts, last.pre) # {}
     /\ last.exc = "SchedulingValidationError"
     /\ last.verdict.kind \in SchedulingErrorKinds
     /\ last.failing \in FailingDrafts(last.drafts, last.pre)
     /\ \A i \in FailingDrafts(last.drafts, last.pre) : last.failing <= i
     /\ last.validated = last.failing - 1


(***************************************************************************)
(* Properties of the store the API writes.                                 *)
(***************************************************************************)
\* Two stored events at the same date and location with overlapping times.
RowsOverlap(row, other) ==
  /\ RowDate(row) = RowDate(other)
  /\ RowLocation(row) = RowLocation(other)
  /\ ~(Minutes(RowEnd(row)) <= Minutes(RowStart(other))
       \/ Minutes(RowStart(row)) >= Minutes(RowEnd(other)))

ValidAgainst(d, table) ==
  /\ WellTimed(table)
  /\ Placeable(d)
  /\ OverlapSet(d, table) = {}

\* The store is the one before the operation with one row more, which
\* holds the event.
PersistedOnce(d) ==
  /\ Len(events) = Len(last.pre) + 1
  /\ SubSeq(events, 1, Len(last.pre)) = last.pre
  /\ events[Len(events)][2] = d.name
  /\ RowDate(events[Len(events)]) = d.date
  /\ RowStart(events[Len(events)]) = d.start
  /\ RowEnd(events[Len(events)]) = d.end
  /\ RowLocation(events[Len(events)]) = d.location

\* The operation was given one event, valid against the store it found:
\* a create-event call, the batch ingestion of a text of one event, or a
\* submission of the complete form with a numeric campus.
ValidEventGiven ==
  /\ pc = "returned"
  /\ \/ last.op = "create_event"
     \/ last.op = "parse_and_save_events" /\ Len(last.drafts) = 1
     \/ /\ last.op = "on_submit"
        /\ last.form = FullForm
        /\ last.campus_raw = <<"1">>
  /\ ValidAgainst(last.drafts[1], last.pre)

\* The operation ended without an error.
EndedWell ==
  IF last.op = "create_event" THEN last.status = 201
  ELSE IF last.op = "on_submit" THEN last.dialog = "Success"
  ELSE last.exc = "none"

\* C33: an event with well-formed times, start before end, at least 60
\* minutes and no overlapping stored event at its date and location is
\* accepted and persisted exactly once by each creation path (API, batch
\* ingestion, form), and no path ends in an error for it.
C33_ValidEventPersisted ==
  ValidEventGiven
  => /\ last.verdict.kind = "ok"
     /\ EndedWell
     /\ PersistedOnce(last.drafts[1])


C35_NothingRemains ==
  (/\ pc = "returned"
   /\ last.op \in {"parse_and_save_events", "parse_and_save_events_v1"}
   /\ last.stage = "save"
   /\ last.exc # "none"
   /\ last.failing > 1)
  => events = last.pre


(***************************************************************************)
(* The operations that only parse or only validate, next to writers of     *)
(* both stores.  An AST handler parses the text and converts the model; it *)
(* makes no storage call, so the stores it leaves are the stores it found. *)
(* validate_event_scheduling makes one storage call, a SELECT.             *)
(***************************************************************************)
\* The model textX builds for an events text of one event.
EventsAst ==
  <<ObjectNode(<<Slot(<<"e", "v", "e", "n", "t", "s">>, Ref(2))>>),
    ListNode(<<Ref(3)>>),
    ObjectNode(<<Slot(<<"p", "a", "r", "e", "n", "t">>, Ref(1)), Slot(<<"n", "a", "m", "e">>, Primitive),
                 Slot(<<"r", "e", "q", "u", "e", "s", "t", "e", "r", "_", "t", "y", "p", "e">>, Primitive), Slot(<<"d", "a", "t", "e">>, Primitive),
                 Slot(<<"s", "t", "a", "r", "t">>, Primitive), Slot(<<"e", "n", "d">>, Primitive),
                 Slot(<<"l", "o", "c", "a", "t", "i", "o", "n">>, Primitive)>>)>>

AstResult(status, heap, r, stored_events, stored_rules) ==
  [status |-> status, record |-> ToDictRecord("get_events_ast", status, heap,
                                              DefaultMaxDepth, r),
   events |-> stored_events, form_fields |-> stored_rules]

\* The handler creating the tables anew before it parses.
get_events_ast_resetting(parses, stored_events, stored_rules) ==
  IF parses
    THEN AstResult(200, EventsAst,
                   model_to_dict(EventsAst, Ref(1), DefaultMaxDepth, 0, {},
                                 <<>>),
                   <<>>, <<>>)
    ELSE AstResult(400, <<>>, Converted(Out("null", 0, <<>>), {}, <<>>),
                   <<>>, <<>>)

\* POST /events-ast on a text that parses or does not, with the stores
\* the call found and the stores it leaves.
get_events_ast(parses, stored_events, stored_rules) ==
  IF parses
    THEN AstResult(200, EventsAst,
                   model_to_dict(EventsAst, Ref(1), DefaultMaxDepth, 0, {},
                                 <<>>),
                   stored_events, stored_rules)
    ELSE AstResult(400, <<>>, Converted(Out("null", 0, <<>>), {}, <<>>),
                   stored_events, stored_rules)

GetEventsAst ==
  /\ pc = "idle"
  /\ \E parses \in BOOLEAN :
       \E r \in {get_events_ast(parses, events, form_fields)} :
         /\ last' = r.record
         /\ events' = r.events
         /\ form_fields' = r.form_fields
  /\ pc' = "returned"
  /\ UNCHANGED <<ingestion, requests>>

\* validate_event_scheduling called on its own
ValidateEvent ==
  /\ pc = "idle"
  /\ \E d \in Drafts :
       last' = [op |-> "validate_event_scheduling", drafts |-> <<d>>,
                verdict |-> validate_event_scheduling(ValidateCall(d),
                                                      events)]
  /\ pc' = "returned"
  /\ UNCHANGED <<events, concurrent>>

NextFrame ==
  \/ IngestRulesV1
  \/ IngestEventsV1
  \/ GetRulesAst
  \/ GetEventsAst
  \/ ValidateEvent
  \/ Return

SpecFrame == Init /\ [][NextFrame]_vars

ParseOnly == {"get_rules_ast", "get_events_ast", "validate_event_scheduling"}

\* C36: no call of get_rules_ast, get_events_ast or
\* validate_event_scheduling, whether it succeeds or fails, changes the
\* stored field rules or the stored events.
C36_ParseOnlyFrame ==
  [][(pc' = "returned" /\ last'.op \in ParseOnly)
     => (events' = events /\ form_fields' = form_fields)]_vars

\* An AST has been returned while both stores held rows.
C36_Witness ==
  /\ pc = "returned"
  /\ last.op = "get_events_ast"
  /\ last.status = 200
  /\ events # <<>>
  /\ form_fields # <<>>


(***************************************************************************)
(* The desktop form and its required fields.                               *)
(***************************************************************************)
FormSubmitted == pc = "returned" /\ last.op \in {"on_submit", "on_submit_v1"}

\* The loaded rules that are both visible and required.
VisibleRequired(form) ==
  {form[i][1] : i \in {j \in 1..Len(form) : form[j][2] /\ form[j][3]}}

\* The loaded rules that are required and not visible.
HiddenRequired(form) ==
  {form[i][1] : i \in {j \in 1..Len(form) : ~form[j][2] /\ form[j][3]}}

\* The visible required fields the user left blank.
BlankVisibleRequired ==
  {f \in VisibleRequired(last.form) :
     PyStrip(Entries(last.drafts[1], last.campus_raw)[f]) = <<>>}

\* C37: in both generations of the desktop form, on_submit saves an event
\* only if every loaded rule that is visible and required has a non-blank
\* value, and it reports missing data only if such a rule has a blank
\* value: a rule that is required and not visible does not block.
C37_RequiredVisibleOnly ==
  FormSubmitted
  => /\ (last.dialog = "Success" \/ events # last.pre)
          => BlankVisibleRequired = {}
     /\ last.dialog = "Missing data" => BlankVisibleRequired # {}


(***************************************************************************)
(* The attributes model_to_dict leaves out.  The keys of a dict of the     *)
(* output are the names of its parts; "__type__" and "__note__" are        *)
(* written by the converter itself and are no attribute of the object.     *)
(***************************************************************************)
\* An attribute the tree view excludes: parent, parent_obj, parent_ref or
\* a name starting with an underscore.
Structural(name) ==
  \/ name \in {ParentName, ParentName \o <<"_", "o", "b", "j">>,
               ParentName \o <<"_", "r", "e", "f">>}
  \/ (name # <<>> /\ Head(name) = "_")

\* The attribute names that are keys of some dict of the output.
RECURSIVE Keys(_)
Keys(out) ==
  (IF out.kind = "dict"
     THEN {out.parts[i].name : i \in 1..Len(out.parts)}
     ELSE {})
    \cup UNION {Keys(out.parts[i].value) : i \in 1..Len(out.parts)}

\* The nodes one step from a set of nodes, through the items of a list or
\* the attributes of an object that are not structural.
Below(heap, nodes) ==
  {slot.value.node :
     slot \in {s \in UNION {{heap[n].slots[i] : i \in 1..Len(heap[n].slots)} :
                             n \in nodes} :
                 s.value.tag = "ref" /\ ~Structural(s.name)}}

RECURSIVE Descendants(_, _, _)
Descendants(heap, nodes, k) ==
  IF k = 0 THEN nodes
  ELSE Descendants(heap, nodes \cup Below(heap, nodes), k - 1)

\* C38: model_to_dict never emits an attribute named parent, parent_obj or
\* parent_ref or with a name starting with an underscore (no such name is a
\* key of an object of the output), and never descends into one: every
\* object it is called on is reached from the root without passing through
\* such an attribute.
C38_StructuralExcluded ==
  ToDictDone
  => /\ \A name \in Keys(last.out) : ~Structural(name)
     /\ \A e \in Encounters :
          e.node \in Descendants(last.heap, {1}, Len(last.heap))

\* An object has been expanded that refers, through a structural
\* attribute only, to an object the conversion was never called on.
C38_Witness ==
  /\ ToDictDone
  /\ \E e \in Encounters :
       /\ e.kind = "dict"
       /\ \E i \in 1..Len(last.heap[e.node].slots) :
            /\ Structural(last.heap[e.node].slots[i].name)
            /\ last.heap[e.node].slots[i].value.tag = "ref"
            /\ \A f \in Encounters :
                 f.node # last.heap[e.node].slots[i].value.node


====
